---- MODULE Spec2Model ----
(***************************************************************************)
(* A model of the tileNet server (csymonds/tileNet).                       *)
(*                                                                         *)
(* Three specifications share this module:                                 *)
(*   Spec         the matching game plugin (server/games/pair_panicking/   *)
(*                game.py) driven by the connection tasks of the agents in *)
(*                its matrix and by its resolution-timer tasks, under      *)
(*                asyncio's cooperative scheduling: a task runs until an   *)
(*                await suspends it; every send to a client is an await    *)
(*                that may or may not suspend.                             *)
(*   SpecWorld    World.place_in_matrix / remove_from_matrix               *)
(*                (server/world.py) under arbitrary call sequences.        *)
(*   SpecTransfer TileNetServer._place_agent_in_matrix (server/server.py)  *)
(*                and Session.send_matrix_state (server/session.py).       *)
(***************************************************************************)
EXTENDS Integers, Sequences, FiniteSets, TLC

(***************************************************************************)
(* Bounds of the model.  The 8x8 board (GRID_ROWS, GRID_COLS,              *)
(* TOTAL_SQUARES = 64, game.py:43-45) is scaled to NumCells cells, the 16  *)
(* symbols (game.py:37-41) to two, and START_ENERGY (10, game.py:52) to a  *)
(* small starting score so that eliminations are within reach.             *)
(***************************************************************************)
NumAgents == 2
NumCells == 4
MaxTimers == 2
MaxSuspended == 1
MaxClicks == 3
MaxSoloClicks == 4
MaxRaceClicks == 4
max_clients == 1
MaxEntries == 1
START_ENERGY == 2

\* create_agent(..., energy=10) at login
LOGIN_ENERGY == 10

None == 0
NoScore == -100

Agents == 1..NumAgents
Timers == (NumAgents + 1)..(NumAgents + MaxTimers)
Tasks == Agents \cup Timers
Cells == 1..NumCells
SYMBOLS == {"beer", "duck"}
\* SYMBOLS * COPIES_PER_SYMBOL, cut to NumCells cells (game.py:182): one pair
\* of equal symbols, the other cells of the second symbol
Deck == [c \in Cells |-> IF c <= 2 THEN "beer" ELSE "duck"]
\* the outcomes of random.shuffle (game.py:183) the model deals: the deck as
\* built, and the deck rotated by one cell
Boards == {Deck, [c \in Cells |-> Deck[((c + NumCells - 2) % NumCells) + 1]]}
TOTAL_SQUARES == NumCells
HIDDEN_NAME == "???"
SOLVED_NAME == ""

VARIABLES
    \* PairPanickingPlugin fields (game.py:73-90)
    board, state, showing, trigger_agent, timer_task,
    scores, score_keys, game_in_progress, solved_count,
    \* World objects the plugin writes: grid tokens, restart token, agents,
    \* and the agents contained in the game matrix
    tokName, tokEnergy, restartEnergy, agentEnergy, inMatrix,
    \* asyncio tasks: position, locals, the running task, cancellation requests
    pc, loc, cur, cancel,
    \* history: resolution bodies executed for the pair formed last, and
    \* grid clicks accepted so far
    pairRes, clicks, entries,
    \* World containment (world.py:41-42 and the container_matrix fields,
    \* objects.py:97-111)
    matrix_contents, container_matrix,
    \* connection tasks of the server (handle_client): position, locals, what
    \* each has done so far in its current transfer or cleanup, and the
    \* transfers it has completed
    xpc, xloc, xlog, moves,
    \* the session directory (server.py:46-47) and the connections whose
    \* transport is closed
    sessions, closed,
    \* login (server.py:117-178): position and rejections of each connection,
    \* the name it asks for, the agents created in World and their names
    lpc, attempts, asked, created, agentName,
    \* the energy of each agent as each client received it last
    \* (client/object_cache.py:35-75)
    seen,
    \* the client's ObjectCache (object_cache.py:29-33) and the objects for
    \* which the last set message that carried an x carried a negative one
    objects, current_matrix_id, exited

gameVars == <<board, state, showing, trigger_agent, timer_task,
              scores, score_keys, game_in_progress, solved_count>>
objVars == <<tokName, tokEnergy, restartEnergy, agentEnergy, inMatrix>>
taskVars == <<pc, loc, cur, cancel>>
boundVars == <<clicks, entries>>
worldVars == <<matrix_contents, container_matrix>>
xferVars == <<xpc, xloc, xlog, moves>>
connVars == <<sessions, closed>>
loginVars == <<lpc, attempts, asked, created, agentName>>
cacheVars == <<objects, current_matrix_id, exited>>
restVars == <<worldVars, xferVars, connVars, loginVars, cacheVars>>
otherVars == <<restVars, seen>>
gameSpecVars == <<gameVars, objVars, taskVars, pairRes, boundVars, seen, cacheVars>>
vars == <<gameSpecVars, otherVars>>

LocInit == [cell |-> 0, c1 |-> 0, c2 |-> 0, i |-> 0, todo |-> <<>>,
            inact |-> <<>>, ret |-> "", win |-> FALSE, forced |-> FALSE]

\* Positions inside _resolve's body (_handle_match, _handle_mismatch, _game_over)
BodyPcs == {"match_cell", "match_keys", "match_score", "match_hear", "match_win",
            "mis_cell", "mis_keys", "mis_score", "mis_post", "mis_elim", "mis_check",
            "go_start", "go_reveal", "go_restart", "res_ret"}

SeqRemove(s, x) == SelectSeq(s, LAMBDA y : y # x)
SeqHas(s, x) == \E j \in 1..Len(s) : s[j] = x

\* World.get_agents_in_matrix filtered by the session directory: every agent
\* in the matrix has a session (server.py:312-345 drops the session last).
Recipients == inMatrix

(***************************************************************************)
(* An await on a send (Session.send, session.py:37-40).  The task either   *)
(* goes on without suspending, or is suspended when there is a recipient.  *)
(* A task with a pending cancellation request gets CancelledError at the   *)
(* suspension; no broadcast helper catches it (game.py:606-609 catch       *)
(* Exception) and _timer_coro swallows it (game.py:368-369): the task ends.*)
(***************************************************************************)
StablePcs == {"lobby", "idle", "gone", "free", "sleeping", "expired"}
Suspended(t) == {x \in Tasks \ {t} : pc[x] \notin StablePcs}

Await(t, rcpt, npc, nloc) ==
    IF rcpt # {} /\ Cardinality(Suspended(t)) < MaxSuspended
    THEN IF t \in Timers /\ cancel[t - NumAgents]
         THEN \/ /\ cur' = t
                 /\ pc' = [pc EXCEPT ![t] = npc]
                 /\ loc' = [loc EXCEPT ![t] = nloc]
                 /\ cancel' = cancel
              \/ /\ cur' = None
                 /\ pc' = [pc EXCEPT ![t] = "free"]
                 /\ loc' = [loc EXCEPT ![t] = LocInit]
                 /\ cancel' = [cancel EXCEPT ![t - NumAgents] = FALSE]
         ELSE /\ cur' = None
              /\ pc' = [pc EXCEPT ![t] = npc]
              /\ loc' = [loc EXCEPT ![t] = nloc]
              /\ cancel' = cancel
    ELSE /\ cur' = t
         /\ pc' = [pc EXCEPT ![t] = npc]
         /\ loc' = [loc EXCEPT ![t] = nloc]
         /\ cancel' = cancel

\* The task goes on to the next statement: no await in between.
Goto(t, npc, nloc) ==
    /\ cur' = t
    /\ pc' = [pc EXCEPT ![t] = npc]
    /\ loc' = [loc EXCEPT ![t] = nloc]
    /\ cancel' = cancel

Running(t) == cur = t \/ cur = None

TypeOK ==
    /\ board \in [Cells -> SYMBOLS]
    /\ state \in [Cells -> {"hidden", "showing", "solved"}]
    /\ showing \in Seq(Cells)
    /\ trigger_agent \in Agents \cup {None}
    /\ timer_task \in Timers \cup {None}
    /\ scores \in [Agents -> Int]
    /\ score_keys \in Seq(Agents)
    /\ game_in_progress \in BOOLEAN
    /\ solved_count \in Nat
    /\ inMatrix \subseteq Agents
    /\ cur \in Tasks \cup {None}
    /\ cancel \in [1..MaxTimers -> BOOLEAN]

Tracked(a) == scores[a] # NoScore
Active == {a \in Agents : Tracked(a) /\ scores[a] > 0}
LiveTimers == {u \in Timers : pc[u] # "free"}
FreeTimer == CHOOSE u \in Timers : pc[u] = "free" /\ \A v \in Timers : pc[v] = "free" => u <= v

(***************************************************************************)
(* The World's objects for SpecWorld and SpecTransfer: the home matrix and *)
(* the game matrix of setup_world (main.py:23-58), two agents, and one     *)
(* token, key and image.  An image has no container_matrix field           *)
(* (objects.py:114-115).  MissingMatrix is an id no matrix has.            *)
(***************************************************************************)
HomeMatrix == "m1"
GameMatrix == "m2"
MissingMatrix == "m9"
NoMatrix == ""
MatrixIds == {HomeMatrix, GameMatrix}
XAgents == {"a1", "a2"}
XTokens == {"t1"}
XKeys == {"k1"}
XImages == {"i1"}

\* a new ObjectCache knows no object and has no current matrix
\* (object_cache.py:29-33); an object the cache has not been told about has
\* no attribute
NoObject == [known |-> FALSE, container |-> NoMatrix, x |-> <<>>]
CacheIds == MatrixIds \cup {"a1"} \cup XTokens \cup XKeys \cup XImages
CacheInit ==
    /\ objects = [o \in CacheIds |-> NoObject]
    /\ current_matrix_id = NoMatrix
    /\ exited = {}
HasContainer == XAgents \cup XTokens \cup XKeys
WorldObjs == HasContainer \cup XImages

\* The objects exist and none is placed (world.py:62-99).
WorldEmpty ==
    /\ matrix_contents = [m \in MatrixIds |-> {}]
    /\ container_matrix = [o \in HasContainer |-> NoMatrix]

XLocInit == [target |-> NoMatrix, old |-> NoMatrix, phase |-> 0, todo |-> {}, fresh |-> FALSE,
             text |-> <<>>]

XferIdle ==
    /\ xpc = [a \in XAgents |-> "idle"]
    /\ xloc = [a \in XAgents |-> XLocInit]
    /\ xlog = [a \in XAgents |-> <<>>]
    /\ moves = [a \in XAgents |-> 0]

(***************************************************************************)
(* Init: the state after setup_world (main.py:23-58).  initialize() has    *)
(* created the tokens with energy 1 (game.py:130-177) and dealt a board    *)
(* (_setup_new_game, game.py:179-205); no agent has logged in.             *)
(***************************************************************************)
GameInit ==
    /\ board \in Boards
    /\ state = [c \in Cells |-> "hidden"]
    /\ showing = <<>>
    /\ trigger_agent = None
    /\ timer_task = None
    /\ scores = [a \in Agents |-> NoScore]
    /\ score_keys = <<>>
    /\ game_in_progress = TRUE
    /\ solved_count = 0
    /\ tokName = [c \in Cells |-> HIDDEN_NAME]
    /\ tokEnergy = [c \in Cells |-> 1]
    /\ restartEnergy = 1
    /\ agentEnergy = [a \in Agents |-> LOGIN_ENERGY]
    /\ inMatrix = {}
    /\ pc = [t \in Tasks |-> IF t \in Agents THEN "lobby" ELSE "free"]
    /\ loc = [t \in Tasks |-> LocInit]
    /\ cur = None
    /\ cancel = [u \in 1..MaxTimers |-> FALSE]
    /\ pairRes = 0
    /\ clicks = 0
    /\ entries = [a \in Agents |-> 0]
    /\ seen = [p \in Agents |-> [x \in Agents |-> NoScore]]
    /\ CacheInit

\* every agent is logged in, with an open connection (server.py:163-175)
AllLoggedIn ==
    /\ sessions = XAgents
    /\ closed = {}
    /\ lpc = [a \in XAgents |-> "in"]
    /\ attempts = [a \in XAgents |-> 0]
    /\ asked = [a \in XAgents |-> <<a>>]
    /\ created = XAgents
    /\ agentName = [a \in XAgents |-> <<a>>]

Init == GameInit /\ WorldEmpty /\ XferIdle /\ AllLoggedIn

\* The handler of a connection task returns to the command loop
\* (server.py:91-106); a timer task ends.
Finish(t, npc) ==
    /\ cur' = None
    /\ pc' = [pc EXCEPT ![t] = npc]
    /\ loc' = [loc EXCEPT ![t] = LocInit]

(***************************************************************************)
(* Entering the game matrix: _place_agent_in_matrix (server.py:203-219)    *)
(* places the agent, sends it the matrix state and tells the occupants,    *)
(* then calls on_agent_enter (game.py:253-279).                            *)
(***************************************************************************)
EnterPlace(a) ==
    /\ cur = None /\ pc[a] = "lobby"
    /\ entries[a] < MaxEntries
    /\ entries' = [entries EXCEPT ![a] = @ + 1]
    /\ inMatrix' = inMatrix \cup {a}
    /\ Await(a, {a}, "enter", loc[a])
    /\ seen' = [p \in Agents |->
                  IF p = a
                  THEN [x \in Agents |-> IF x \in inMatrix' THEN agentEnergy[x] ELSE NoScore]
                  ELSE IF p \in inMatrix THEN [seen[p] EXCEPT ![a] = agentEnergy[a]]
                  ELSE seen[p]]
    /\ UNCHANGED <<gameVars, tokName, tokEnergy, restartEnergy, agentEnergy, pairRes, clicks>>
    /\ UNCHANGED restVars

EntryWithoutCost(a) == START_ENERGY

\* score = START_ENERGY - 1 (game.py:257)
EntryScore(a) == START_ENERGY - 1

EnterHook(a) ==
    /\ Running(a) /\ pc[a] = "enter"
    /\ scores' = [scores EXCEPT ![a] = EntryScore(a)]
    /\ score_keys' = IF SeqHas(score_keys, a) THEN score_keys ELSE Append(score_keys, a)
    /\ agentEnergy' = [agentEnergy EXCEPT ![a] = EntryScore(a)]
    /\ Await(a, {a}, "enter_restart", loc[a])
    /\ seen' = [seen EXCEPT ![a][a] = EntryScore(a)]
    /\ UNCHANGED <<board, state, showing, trigger_agent, timer_task, game_in_progress,
                   solved_count, tokName, tokEnergy, restartEnergy, inMatrix, pairRes>>
    /\ UNCHANGED boundVars
    /\ UNCHANGED restVars

EnterRestart(a) ==
    /\ Running(a) /\ pc[a] = "enter_restart"
    /\ restartEnergy' = IF game_in_progress THEN restartEnergy ELSE 1
    /\ Finish(a, "idle")
    /\ UNCHANGED <<gameVars, tokName, tokEnergy, agentEnergy, inMatrix, cancel, pairRes>>
    /\ UNCHANGED boundVars
    /\ UNCHANGED otherVars

(***************************************************************************)
(* A click on a grid cell: the server's checks (_handle_click,             *)
(* server.py:245-267), then on_click (game.py:314-334).  As many clicks    *)
(* are let in as there are timer slots left for them.                      *)
(***************************************************************************)
InClick(b) == b \in Agents /\ loc[b].cell # 0

\* The clicks the model lets in: MaxClicks, or MaxSoloClicks when the other
\* connection ended before it ever entered the game, so that one agent alone
\* can play a whole board.
ClickLimit ==
    IF \E b \in Agents : pc[b] = "gone" /\ entries[b] = 0 THEN MaxSoloClicks ELSE MaxClicks

AcceptsShownCell(a, c) ==
    /\ game_in_progress
    /\ Tracked(a) /\ scores[a] > 0

\* game.py:320-330: the three early returns of on_click for a grid token
GridClickAccepted(a, c) ==
    /\ game_in_progress
    /\ Tracked(a) /\ scores[a] > 0
    /\ state[c] = "hidden"

\* on_click for a grid token up to the reveal or the forced resolution
\* (game.py:314-334), let in while fewer than limit clicks were accepted
ClickWithin(a, c, limit) ==
    /\ cur = None /\ pc[a] = "idle"
    /\ Cardinality(LiveTimers) + Cardinality({b \in Agents : InClick(b)}) < MaxTimers
    /\ clicks < limit
    /\ clicks' = clicks + 1
    /\ UNCHANGED entries
    /\ UNCHANGED otherVars
    /\ tokEnergy[c] > 0
    /\ GridClickAccepted(a, c)
    /\ IF Len(showing) >= 2
       THEN Goto(a, "resolve", [loc[a] EXCEPT !.cell = c, !.ret = "reveal", !.forced = TRUE])
       ELSE Goto(a, "reveal", [loc[a] EXCEPT !.cell = c])
    /\ UNCHANGED <<gameVars, objVars, pairRes>>

ClickGrid(a, c) == ClickWithin(a, c, ClickLimit)

\* game.py:336-355
Reveal(a) ==
    /\ Running(a) /\ pc[a] = "reveal"
    /\ LET c == loc[a].cell IN
       /\ state' = [state EXCEPT ![c] = "showing"]
       /\ showing' = Append(showing, c)
       /\ tokName' = [tokName EXCEPT ![c] = board[c]]
       /\ pairRes' = IF Len(showing) = 1 THEN 0 ELSE pairRes
    /\ Await(a, Recipients, "click_timer", loc[a])
    /\ UNCHANGED <<board, trigger_agent, timer_task, scores, score_keys, game_in_progress,
                   solved_count, tokEnergy, restartEnergy, agentEnergy, inMatrix>>
    /\ UNCHANGED boundVars
    /\ UNCHANGED otherVars

\* game.py:357-361
ClickTimer(a) ==
    /\ Running(a) /\ pc[a] = "click_timer"
    /\ cur' = None
    /\ loc' = [loc EXCEPT ![a] = LocInit]
    /\ IF Len(showing) = 2
       THEN /\ trigger_agent' = a
            /\ timer_task' = FreeTimer
            /\ pc' = [pc EXCEPT ![a] = "idle", ![FreeTimer] = "sleeping"]
       ELSE /\ pc' = [pc EXCEPT ![a] = "idle"]
            /\ UNCHANGED <<trigger_agent, timer_task>>
    /\ UNCHANGED <<board, state, showing, scores, score_keys, game_in_progress,
                   solved_count, objVars, cancel, pairRes>>
    /\ UNCHANGED boundVars
    /\ UNCHANGED otherVars

(***************************************************************************)
(* The timer task, _timer_coro (game.py:363-369): the sleep ends, and the  *)
(* task is woken later, unless it was cancelled in between.                *)
(***************************************************************************)
TimerExpire(u) ==
    /\ cur = None /\ pc[u] = "sleeping"
    /\ pc' = [pc EXCEPT ![u] = "expired"]
    /\ UNCHANGED <<gameVars, objVars, loc, cur, cancel, pairRes>>
    /\ UNCHANGED boundVars
    /\ UNCHANGED otherVars

TimerWake(u) ==
    /\ cur = None /\ pc[u] = "expired"
    /\ Goto(u, "resolve", [loc[u] EXCEPT !.ret = "timer"])
    /\ UNCHANGED <<gameVars, objVars, pairRes>>
    /\ UNCHANGED boundVars
    /\ UNCHANGED otherVars

(***************************************************************************)
(* _resolve up to its first await (game.py:371-393): cancel the pending    *)
(* timer, return when fewer than two cells show, else take the pair off    *)
(* the showing list and compare the symbols.                               *)
(***************************************************************************)
\* self.timer_task.cancel() on a task other than the running one: the task is
\* at its sleep, gets CancelledError there and ends (game.py:365-369), also
\* when the sleep has already ended and the wake-up is only scheduled.
TimerSurvivesCancel(u) == pc[u]

CancelledPc(u) == "free"

\* self.timer_task and not self.timer_task.done() (game.py:374, 202)
TimerPending == timer_task # None /\ pc[timer_task] # "free"

\* self.showing.clear() (game.py:383)
ShowingAfterResolve == <<>>

\* _resolve returns to its caller: on_click goes on to reveal the clicked
\* cell (game.py:336), _timer_coro ends (game.py:367).
ReturnPc(t) == IF loc[t].ret = "timer" THEN "free" ELSE loc[t].ret

Resolve(t) ==
    /\ cur = t /\ pc[t] = "resolve"
    /\ timer_task' = IF TimerPending THEN None ELSE timer_task
    /\ cancel' = IF timer_task = t THEN [cancel EXCEPT ![t - NumAgents] = TRUE] ELSE cancel
    /\ cur' = t
    /\ LET pc1 == IF TimerPending /\ timer_task # t
                  THEN [pc EXCEPT ![timer_task] = CancelledPc(timer_task)] ELSE pc
       IN IF Len(showing) < 2
          THEN /\ pc' = [pc1 EXCEPT ![t] = "res_none"]
               /\ loc' = loc
               /\ UNCHANGED <<showing, pairRes>>
          ELSE /\ showing' = ShowingAfterResolve
               /\ pairRes' = pairRes + 1
               /\ loc' = [loc EXCEPT ![t].c1 = showing[1], ![t].c2 = showing[2], ![t].i = 1]
               /\ pc' = [pc1 EXCEPT ![t] = IF board[showing[1]] = board[showing[2]]
                                          THEN "match_cell" ELSE "mis_cell"]
    /\ UNCHANGED <<board, state, trigger_agent, scores, score_keys, game_in_progress,
                   solved_count, objVars>>
    /\ UNCHANGED boundVars
    /\ UNCHANGED otherVars

\* _resolve returned without a pair to resolve (game.py:378-379)
ResolveNone(t) ==
    /\ cur = t /\ pc[t] = "res_none"
    /\ IF t \in Timers
       THEN Finish(t, "free") /\ cancel' = [cancel EXCEPT ![t - NumAgents] = FALSE]
       ELSE Goto(t, ReturnPc(t), loc[t])
    /\ UNCHANGED <<gameVars, objVars, pairRes>>
    /\ UNCHANGED boundVars
    /\ UNCHANGED otherVars

\* _resolve returned after _handle_match or _handle_mismatch
ResRet(t) ==
    /\ Running(t) /\ pc[t] = "res_ret"
    /\ IF t \in Timers
       THEN Finish(t, "free") /\ cancel' = [cancel EXCEPT ![t - NumAgents] = FALSE]
       ELSE Goto(t, ReturnPc(t), loc[t])
    /\ UNCHANGED <<gameVars, objVars, pairRes>>
    /\ UNCHANGED boundVars
    /\ UNCHANGED otherVars

\* An exception leaves the handler: a timer task ends with it; a connection
\* task falls to handle_client's cleanup (server.py:110-115).
Raise(t) ==
    /\ cur' = None
    /\ loc' = [loc EXCEPT ![t] = LocInit]
    /\ IF t \in Timers
       THEN /\ pc' = [pc EXCEPT ![t] = "free"]
            /\ cancel' = [cancel EXCEPT ![t - NumAgents] = FALSE]
       ELSE /\ pc' = [pc EXCEPT ![t] = "cleanup"]
            /\ cancel' = cancel

KeepsOldEnergy(sc, x) == agentEnergy[x]

\* agent.energy = self.scores[agent_id] (game.py:424-426, 471-473, 582-584)
WorldEnergy(sc, x) == sc[x]

\* _broadcast_set of an agent's energy (game.py:600-609): every occupant
\* receives it, unless the broadcasting task ends at a suspension of the
\* loop: then the occupants up to that send have received it.
BroadcastEnergy(t, x) ==
    \E D \in SUBSET Recipients :
        /\ pc'[t] # "free" => D = Recipients
        /\ D = {} => Recipients = {}
        /\ seen' = [p \in Agents |->
                      IF p \in D THEN [seen[p] EXCEPT ![x] = agentEnergy'[x]] ELSE seen[p]]

(***************************************************************************)
(* _handle_match (game.py:395-441)                                         *)
(***************************************************************************)
MatchBonus(x) == IF x = trigger_agent THEN 4 ELSE 0

MatchCell(t) ==
    /\ Running(t) /\ pc[t] = "match_cell"
    /\ LET c == IF loc[t].i = 1 THEN loc[t].c1 ELSE loc[t].c2 IN
       /\ state' = [state EXCEPT ![c] = "solved"]
       /\ solved_count' = solved_count + 1
       /\ tokName' = [tokName EXCEPT ![c] = SOLVED_NAME]
       /\ tokEnergy' = [tokEnergy EXCEPT ![c] = 0]
    /\ IF loc[t].i = 1
       THEN Await(t, Recipients, "match_cell", [loc[t] EXCEPT !.i = 2])
       ELSE Await(t, Recipients, "match_keys", [loc[t] EXCEPT !.i = 0])
    /\ UNCHANGED <<board, showing, trigger_agent, timer_task, scores, score_keys,
                   game_in_progress, restartEnergy, agentEnergy, inMatrix, pairRes>>
    /\ UNCHANGED boundVars
    /\ UNCHANGED otherVars

\* list(self.scores.keys()) (game.py:421)
MatchKeys(t) ==
    /\ Running(t) /\ pc[t] = "match_keys"
    /\ Goto(t, "match_score", [loc[t] EXCEPT !.todo = score_keys])
    /\ UNCHANGED <<gameVars, objVars, pairRes>>
    /\ UNCHANGED boundVars
    /\ UNCHANGED otherVars

MatchScore(t) ==
    /\ Running(t) /\ pc[t] = "match_score"
    /\ IF loc[t].todo = <<>>
       THEN /\ Goto(t, "match_hear", loc[t])
            /\ UNCHANGED <<scores, agentEnergy, seen>>
       ELSE LET x == Head(loc[t].todo) IN
            IF ~Tracked(x)
            THEN /\ Raise(t)
                 /\ UNCHANGED <<scores, agentEnergy, seen>>
            ELSE /\ scores' = [scores EXCEPT ![x] = @ + 2 + MatchBonus(x)]
                 /\ agentEnergy' = [agentEnergy EXCEPT ![x] = WorldEnergy(scores', x)]
                 /\ Await(t, Recipients, "match_score", [loc[t] EXCEPT !.todo = Tail(@)])
                 /\ BroadcastEnergy(t, x)
    /\ UNCHANGED <<board, state, showing, trigger_agent, timer_task, score_keys,
                   game_in_progress, solved_count, tokName, tokEnergy, restartEnergy,
                   inMatrix, pairRes>>
    /\ UNCHANGED boundVars
    /\ UNCHANGED restVars

MatchHear(t) ==
    /\ Running(t) /\ pc[t] = "match_hear"
    /\ Await(t, Recipients, "match_win", loc[t])
    /\ UNCHANGED <<gameVars, objVars, pairRes>>
    /\ UNCHANGED boundVars
    /\ UNCHANGED otherVars

MatchWin(t) ==
    /\ Running(t) /\ pc[t] = "match_win"
    /\ IF solved_count >= TOTAL_SQUARES
       THEN Goto(t, "go_start", [loc[t] EXCEPT !.win = TRUE])
       ELSE Goto(t, "res_ret", loc[t])
    /\ UNCHANGED <<gameVars, objVars, pairRes>>
    /\ UNCHANGED boundVars
    /\ UNCHANGED otherVars

(***************************************************************************)
(* _handle_mismatch (game.py:443-490)                                      *)
(***************************************************************************)
MismatchPenalty(x) == IF x = trigger_agent THEN 2 ELSE 1

MisCell(t) ==
    /\ Running(t) /\ pc[t] = "mis_cell"
    /\ LET c == IF loc[t].i = 1 THEN loc[t].c1 ELSE loc[t].c2 IN
       /\ state' = [state EXCEPT ![c] = "hidden"]
       /\ tokName' = [tokName EXCEPT ![c] = HIDDEN_NAME]
    /\ IF loc[t].i = 1
       THEN Await(t, Recipients, "mis_cell", [loc[t] EXCEPT !.i = 2])
       ELSE Await(t, Recipients, "mis_keys", [loc[t] EXCEPT !.i = 0])
    /\ UNCHANGED <<board, showing, trigger_agent, timer_task, scores, score_keys,
                   game_in_progress, solved_count, tokEnergy, restartEnergy,
                   agentEnergy, inMatrix, pairRes>>
    /\ UNCHANGED boundVars
    /\ UNCHANGED otherVars

\* list(self.scores.keys()) (game.py:466)
MisKeys(t) ==
    /\ Running(t) /\ pc[t] = "mis_keys"
    /\ Goto(t, "mis_score", [loc[t] EXCEPT !.todo = score_keys])
    /\ UNCHANGED <<gameVars, objVars, pairRes>>
    /\ UNCHANGED boundVars
    /\ UNCHANGED otherVars

\* game.py:466-475: one agent of the loop, up to the broadcast of its score
MisScore(t) ==
    /\ Running(t) /\ pc[t] = "mis_score"
    /\ IF loc[t].todo = <<>>
       THEN /\ Goto(t, "mis_elim", loc[t])
            /\ UNCHANGED <<scores, agentEnergy, seen>>
       ELSE LET x == Head(loc[t].todo) IN
            IF ~Tracked(x)
            THEN /\ Raise(t)
                 /\ UNCHANGED <<scores, agentEnergy, seen>>
            ELSE IF scores[x] <= 0
            THEN /\ Goto(t, "mis_score", [loc[t] EXCEPT !.todo = Tail(@)])
                 /\ UNCHANGED <<scores, agentEnergy, seen>>
            ELSE /\ scores' = [scores EXCEPT ![x] = @ - MismatchPenalty(x)]
                 /\ agentEnergy' = [agentEnergy EXCEPT ![x] = WorldEnergy(scores', x)]
                 /\ Await(t, Recipients, "mis_post", loc[t])
                 /\ BroadcastEnergy(t, x)
    /\ UNCHANGED <<board, state, showing, trigger_agent, timer_task, score_keys,
                   game_in_progress, solved_count, tokName, tokEnergy, restartEnergy,
                   inMatrix, pairRes>>
    /\ UNCHANGED boundVars
    /\ UNCHANGED restVars

\* game.py:477-478: after the broadcast, the score is read again
MisPost(t) ==
    /\ Running(t) /\ pc[t] = "mis_post"
    /\ LET x == Head(loc[t].todo) IN
       IF ~Tracked(x)
       THEN Raise(t)
       ELSE Goto(t, "mis_score",
                 [loc[t] EXCEPT !.todo = Tail(@),
                                !.inact = IF scores[x] <= 0 THEN Append(@, x) ELSE @])
    /\ UNCHANGED <<gameVars, objVars, pairRes>>
    /\ UNCHANGED boundVars
    /\ UNCHANGED otherVars

\* game.py:480-485: one announcement per newly inactive agent
MisElim(t) ==
    /\ Running(t) /\ pc[t] = "mis_elim"
    /\ IF loc[t].inact = <<>>
       THEN Goto(t, "mis_check", loc[t])
       ELSE Await(t, Recipients, "mis_elim", [loc[t] EXCEPT !.inact = Tail(@)])
    /\ UNCHANGED <<gameVars, objVars, pairRes>>
    /\ UNCHANGED boundVars
    /\ UNCHANGED otherVars

\* game.py:487-490
MisCheck(t) ==
    /\ Running(t) /\ pc[t] = "mis_check"
    /\ IF Active = {} /\ game_in_progress
       THEN Goto(t, "go_start", [loc[t] EXCEPT !.win = FALSE])
       ELSE Goto(t, "res_ret", loc[t])
    /\ UNCHANGED <<gameVars, objVars, pairRes>>
    /\ UNCHANGED boundVars
    /\ UNCHANGED otherVars

(***************************************************************************)
(* _game_over and _reveal_all (game.py:492-543)                            *)
(***************************************************************************)
GoStart(t) ==
    /\ Running(t) /\ pc[t] = "go_start"
    /\ game_in_progress' = FALSE
    /\ IF loc[t].win
       THEN Await(t, Recipients, "go_restart", loc[t])
       ELSE Await(t, Recipients, "go_reveal", [loc[t] EXCEPT !.i = 1])
    /\ UNCHANGED <<board, state, showing, trigger_agent, timer_task, scores, score_keys,
                   solved_count, objVars, pairRes>>
    /\ UNCHANGED boundVars
    /\ UNCHANGED otherVars

GoReveal(t) ==
    /\ Running(t) /\ pc[t] = "go_reveal"
    /\ LET c == loc[t].i IN
       IF c > NumCells
       THEN /\ Goto(t, "go_restart", [loc[t] EXCEPT !.i = 0])
            /\ UNCHANGED tokName
       ELSE IF state[c] = "hidden"
       THEN /\ tokName' = [tokName EXCEPT ![c] = board[c]]
            /\ Await(t, Recipients, "go_reveal", [loc[t] EXCEPT !.i = c + 1])
       ELSE /\ Goto(t, "go_reveal", [loc[t] EXCEPT !.i = c + 1])
            /\ UNCHANGED tokName
    /\ UNCHANGED <<gameVars, tokEnergy, restartEnergy, agentEnergy, inMatrix, pairRes>>
    /\ UNCHANGED boundVars
    /\ UNCHANGED otherVars

\* game.py:518-523, then the return to _handle_match / _handle_mismatch
\* (whose callers return) or to on_agent_leave
GoRestart(t) ==
    /\ Running(t) /\ pc[t] = "go_restart"
    /\ restartEnergy' = 1
    /\ Await(t, Recipients, IF loc[t].ret \in {"leave_end", "logout_end"} THEN loc[t].ret ELSE "res_ret", loc[t])
    /\ UNCHANGED <<gameVars, tokName, tokEnergy, agentEnergy, inMatrix, pairRes>>
    /\ UNCHANGED boundVars
    /\ UNCHANGED otherVars

(***************************************************************************)
(* Leaving the game matrix.  By the Home control (_handle_home,            *)
(* game.py:549-555, then _place_agent_in_matrix, server.py:188-201): the   *)
(* agent is removed from the matrix, the occupants get the exit delta,     *)
(* then on_agent_leave runs.  By logout or a closed connection             *)
(* (_remove_agent, server.py:312-345): on_agent_leave runs first, then the *)
(* agent is removed.                                                       *)
(***************************************************************************)
\* A connection in the home matrix ends (server.py:101-115, 312-345): the game
\* plugin is not involved.
LobbyLogout(a) ==
    /\ cur = None /\ pc[a] = "lobby"
    /\ pc' = [pc EXCEPT ![a] = "gone"]
    /\ UNCHANGED <<gameVars, objVars, loc, cur, cancel, pairRes>>
    /\ UNCHANGED boundVars
    /\ UNCHANGED otherVars

\* The exit delta (x = -1) takes the agent out of the occupants' view, and
\* the leaving client's view of the matrix ends.
SeenAfterExit(a) ==
    [p \in Agents |->
        IF p = a THEN [x \in Agents |-> NoScore] ELSE [seen[p] EXCEPT ![a] = NoScore]]

LeaveHome(a) ==
    /\ cur = None /\ pc[a] = "idle"
    /\ inMatrix' = inMatrix \ {a}
    /\ Await(a, inMatrix \ {a}, "leave_hook", [loc[a] EXCEPT !.ret = "leave_end"])
    /\ seen' = SeenAfterExit(a)
    /\ UNCHANGED <<gameVars, tokName, tokEnergy, restartEnergy, agentEnergy, pairRes>>
    /\ UNCHANGED boundVars
    /\ UNCHANGED restVars

Disconnect(a) ==
    /\ cur = None /\ pc[a] = "idle"
    /\ Goto(a, "cleanup", loc[a])
    /\ UNCHANGED <<gameVars, objVars, pairRes>>
    /\ UNCHANGED boundVars
    /\ UNCHANGED otherVars

\* server.py:314-324
Cleanup(a) ==
    /\ Running(a) /\ pc[a] = "cleanup"
    /\ IF a \in inMatrix
       THEN Goto(a, "leave_hook", [LocInit EXCEPT !.ret = "logout_end"])
       ELSE Goto(a, "logout_end", LocInit)
    /\ UNCHANGED <<gameVars, objVars, pairRes>>
    /\ UNCHANGED boundVars
    /\ UNCHANGED otherVars

\* on_agent_leave (game.py:281-291)
LeaveHook(a) ==
    /\ Running(a) /\ pc[a] = "leave_hook"
    /\ scores' = [scores EXCEPT ![a] = NoScore]
    /\ score_keys' = SeqRemove(score_keys, a)
    /\ Await(a, Recipients, "leave_check", loc[a])
    /\ UNCHANGED <<board, state, showing, trigger_agent, timer_task, game_in_progress,
                   solved_count, objVars, pairRes>>
    /\ UNCHANGED boundVars
    /\ UNCHANGED otherVars

LeaveNeverEndsGame(a) == FALSE

\* if self.game_in_progress: ... if not active (game.py:294-296)
LeaveEndsGame(a) == game_in_progress /\ Active = {}

\* game.py:293-297
LeaveCheck(a) ==
    /\ Running(a) /\ pc[a] = "leave_check"
    /\ IF LeaveEndsGame(a)
       THEN Goto(a, "go_start", [loc[a] EXCEPT !.win = FALSE])
       ELSE Goto(a, loc[a].ret, loc[a])
    /\ UNCHANGED <<gameVars, objVars, pairRes>>
    /\ UNCHANGED boundVars
    /\ UNCHANGED otherVars

\* server.py:203-219 with the lobby as the new matrix
LeaveEnd(a) ==
    /\ Running(a) /\ pc[a] = "leave_end"
    /\ Finish(a, "lobby")
    /\ UNCHANGED <<gameVars, objVars, cancel, pairRes>>
    /\ UNCHANGED boundVars
    /\ UNCHANGED otherVars

\* server.py:326-345
LogoutEnd(a) ==
    /\ Running(a) /\ pc[a] = "logout_end"
    /\ inMatrix' = inMatrix \ {a}
    /\ Finish(a, "gone")
    /\ seen' = SeenAfterExit(a)
    /\ UNCHANGED <<gameVars, tokName, tokEnergy, restartEnergy, agentEnergy, cancel, pairRes>>
    /\ UNCHANGED boundVars
    /\ UNCHANGED restVars

(***************************************************************************)
(* The restart control: _handle_restart (game.py:570-594), _reset_game     *)
(* (game.py:207-247) and _setup_new_game (game.py:179-205).  The server    *)
(* lets the click through while the token's energy is positive             *)
(* (server.py:258-260).                                                    *)
(***************************************************************************)
RestartAlwaysAccepted(a) == TRUE

\* if self.game_in_progress: ... return (game.py:573-577)
RestartAccepted(a) == ~game_in_progress

\* game.py:573-577: the private notice to the requester
RestartRejected(a) ==
    /\ cur = None /\ pc[a] = "idle"
    /\ restartEnergy > 0
    /\ ~RestartAccepted(a)
    /\ Await(a, {a}, "restart_notice", loc[a])
    /\ UNCHANGED <<gameVars, objVars, pairRes>>
    /\ UNCHANGED boundVars
    /\ UNCHANGED otherVars

RestartNotice(a) ==
    /\ Running(a) /\ pc[a] = "restart_notice"
    /\ Finish(a, "idle")
    /\ UNCHANGED <<gameVars, objVars, cancel, pairRes>>
    /\ UNCHANGED boundVars
    /\ UNCHANGED otherVars

RestartPay(a) ==
    /\ cur = None /\ pc[a] = "idle"
    /\ restartEnergy > 0
    /\ RestartAccepted(a)
    /\ IF Tracked(a)
       THEN /\ scores' = [scores EXCEPT ![a] = @ - 1]
            /\ agentEnergy' = [agentEnergy EXCEPT ![a] = WorldEnergy(scores', a)]
            /\ Await(a, Recipients, "restart_hear", loc[a])
            /\ BroadcastEnergy(a, a)
       ELSE /\ Goto(a, "restart_hear", loc[a])
            /\ UNCHANGED <<scores, agentEnergy, seen>>
    /\ UNCHANGED <<board, state, showing, trigger_agent, timer_task, score_keys,
                   game_in_progress, solved_count, tokName, tokEnergy, restartEnergy,
                   inMatrix, pairRes>>
    /\ UNCHANGED boundVars
    /\ UNCHANGED restVars

RestartHear(a) ==
    /\ Running(a) /\ pc[a] = "restart_hear"
    /\ Await(a, Recipients, "reset", loc[a])
    /\ UNCHANGED <<gameVars, objVars, pairRes>>
    /\ UNCHANGED boundVars
    /\ UNCHANGED otherVars

\* _setup_new_game
Reset(a) ==
    /\ Running(a) /\ pc[a] = "reset"
    /\ board' \in Boards
    /\ state' = [c \in Cells |-> "hidden"]
    /\ showing' = <<>>
    /\ trigger_agent' = None
    /\ solved_count' = 0
    /\ game_in_progress' = TRUE
    /\ timer_task' = IF TimerPending THEN None ELSE timer_task
    /\ cur' = a
    /\ loc' = [loc EXCEPT ![a].i = 1]
    /\ pc' = IF TimerPending
             THEN [pc EXCEPT ![a] = "reset_cell", ![timer_task] = CancelledPc(timer_task)]
             ELSE [pc EXCEPT ![a] = "reset_cell"]
    /\ UNCHANGED <<scores, score_keys, objVars, cancel, pairRes>>
    /\ UNCHANGED boundVars
    /\ UNCHANGED otherVars

\* game.py:212-231
ResetCell(a) ==
    /\ Running(a) /\ pc[a] = "reset_cell"
    /\ LET c == loc[a].i IN
       IF c > NumCells
       THEN /\ Goto(a, "reset_score", [loc[a] EXCEPT !.i = 0, !.todo = score_keys])
            /\ UNCHANGED <<tokName, tokEnergy>>
       ELSE /\ tokName' = [tokName EXCEPT ![c] = HIDDEN_NAME]
            /\ tokEnergy' = [tokEnergy EXCEPT ![c] = 1]
            /\ Await(a, Recipients, "reset_cell", [loc[a] EXCEPT !.i = c + 1])
    /\ UNCHANGED <<gameVars, restartEnergy, agentEnergy, inMatrix, pairRes>>
    /\ UNCHANGED boundVars
    /\ UNCHANGED otherVars

\* game.py:234-240
ResetScore(a) ==
    /\ Running(a) /\ pc[a] = "reset_score"
    /\ IF loc[a].todo = <<>>
       THEN /\ Goto(a, "reset_restart", loc[a])
            /\ UNCHANGED <<scores, score_keys, agentEnergy, seen>>
       ELSE LET x == Head(loc[a].todo) IN
            /\ scores' = [scores EXCEPT ![x] = START_ENERGY]
            /\ score_keys' = IF SeqHas(score_keys, x) THEN score_keys ELSE Append(score_keys, x)
            /\ agentEnergy' = [agentEnergy EXCEPT ![x] = START_ENERGY]
            /\ Await(a, Recipients, "reset_score", [loc[a] EXCEPT !.todo = Tail(@)])
            /\ BroadcastEnergy(a, x)
    /\ UNCHANGED <<board, state, showing, trigger_agent, timer_task, game_in_progress,
                   solved_count, tokName, tokEnergy, restartEnergy, inMatrix, pairRes>>
    /\ UNCHANGED boundVars
    /\ UNCHANGED restVars

\* game.py:242-247
ResetRestart(a) ==
    /\ Running(a) /\ pc[a] = "reset_restart"
    /\ restartEnergy' = -1
    /\ Finish(a, "idle")
    /\ UNCHANGED <<gameVars, tokName, tokEnergy, agentEnergy, inMatrix, cancel, pairRes>>
    /\ UNCHANGED boundVars
    /\ UNCHANGED otherVars

Next ==
    \/ \E a \in Agents :
        \/ EnterPlace(a) \/ EnterHook(a) \/ EnterRestart(a)
        \/ \E c \in Cells : ClickGrid(a, c)
        \/ Reveal(a) \/ ClickTimer(a)
        \/ LeaveHome(a) \/ Disconnect(a) \/ Cleanup(a) \/ LeaveHook(a) \/ LeaveCheck(a)
        \/ LeaveEnd(a) \/ LogoutEnd(a) \/ LobbyLogout(a)
        \/ RestartRejected(a) \/ RestartNotice(a) \/ RestartPay(a) \/ RestartHear(a)
        \/ Reset(a) \/ ResetCell(a) \/ ResetScore(a) \/ ResetRestart(a)
    \/ \E u \in Timers : TimerExpire(u) \/ TimerWake(u)
    \/ \E t \in Tasks :
        \/ Resolve(t) \/ ResolveNone(t) \/ ResRet(t)
        \/ MatchCell(t) \/ MatchKeys(t) \/ MatchScore(t) \/ MatchHear(t) \/ MatchWin(t)
        \/ MisCell(t) \/ MisKeys(t) \/ MisScore(t) \/ MisPost(t) \/ MisElim(t) \/ MisCheck(t)
        \/ GoStart(t) \/ GoReveal(t) \/ GoRestart(t)

Spec == Init /\ [][Next]_vars

(***************************************************************************)
(* Properties of the matching game, checked under Spec.                    *)
(***************************************************************************)
ClickPcs == {"resolve", "res_none", "reveal", "click_timer"} \cup BodyPcs
MatchPcs == {"match_cell", "match_keys", "match_score", "match_hear", "match_win"}
MisPcs == {"mis_cell", "mis_keys", "mis_score", "mis_post", "mis_elim", "mis_check"}
WaitingPcs == {"sleeping", "expired"}

\* C1: for every pair of showing cells the resolution body executes at most
\* once (pairRes counts the executions since the pair was formed), whatever
\* the interleaving of expiry, pre-emption and reset; a timer cancelled while
\* it waits (its reference is dropped by the canceller) is ended by that very
\* step, and an ended timer task never runs again: its slot can only be taken
\* by a new timer, which starts at its sleep.
C1_AtMostOneResolution ==
    [][ /\ pairRes' <= 1
        /\ \A u \in Timers :
            /\ (timer_task = u /\ timer_task' = None /\ pc[u] \in WaitingPcs)
                   => pc'[u] = "free"
            /\ pc[u] = "free" => pc'[u] \in {"free", "sleeping"}
            /\ (pc[u] \in WaitingPcs /\ pc'[u] \in BodyPcs \cup {"resolve"})
                   => pc[u] = "expired" /\ pc'[u] = "resolve"
      ]_vars

\* C1 witness: a third click has pre-empted the pending timer: the clicking
\* task is inside the resolution body, the one execution for this pair, and
\* the cancelled timer is gone.
C1_Witness ==
    \E a \in Agents :
        /\ pc[a] \in MatchPcs \cup MisPcs /\ loc[a].forced
        /\ pairRes = 1 /\ timer_task = None /\ LiveTimers = {}

\* C2: a resolution started by the natural expiry of the timer runs to its
\* end: the timer task leaves the resolution body only at its last statement,
\* with both cells solved (equal symbols) or both hidden (different symbols),
\* also when a broadcast inside it suspends the task.
C2_ExpiryRunsToCompletion ==
    [][ \A u \in Timers :
            (pc[u] \in MatchPcs \cup MisPcs /\ pc'[u] \notin MatchPcs \cup MisPcs)
                => /\ pc[u] \in {"match_win", "mis_check"}
                   /\ LET c1 == loc[u].c1
                          c2 == loc[u].c2
                      IN IF board[c1] = board[c2]
                         THEN state'[c1] = "solved" /\ state'[c2] = "solved"
                         ELSE state'[c1] = "hidden" /\ state'[c2] = "hidden"
      ]_vars

\* C3: commands of one matrix are serialized: while an agent's click is being
\* processed (from its acceptance to the end of on_click), no other agent's
\* command for the matrix (a grid click, the Home control, the restart
\* control) starts to be processed and no timer starts its resolution.
C3_ClickSerialized ==
    [][ \A a \in Agents :
            (loc[a].cell # 0 /\ pc[a] \in ClickPcs)
                => /\ \A b \in Agents \ {a} :
                        ~(pc[b] = "idle" /\
                          pc'[b] \in {"reveal", "resolve", "leave_hook", "restart_hear"})
                   /\ \A u \in Timers : ~(pc[u] = "expired" /\ pc'[u] = "resolve")
      ]_vars

\* C4: when a resolution has just finished (_resolve is about to return after
\* the match or mismatch handling), the showing list is empty and no timer is
\* pending.
C4_AfterResolution ==
    \A t \in Tasks : pc[t] = "res_ret" => showing = <<>> /\ timer_task = None

\* C5: an accepted click that arrives while two cells are showing resolves the
\* pending pair exactly once, then reveals the clicked cell: the click ends
\* with the showing list holding only the new cell.
C5_ForcedClick ==
    [][ \A a \in Agents :
            (loc[a].forced /\ pc[a] \in ClickPcs)
                => \/ loc'[a].forced /\ pc'[a] \in ClickPcs
                   \/ /\ pc'[a] = "idle"
                      /\ showing' = <<loc[a].cell>>
                      /\ pairRes' = 1
      ]_vars

\* C6: a match resolution, once started, solves both cells (state solved,
\* energy 0, empty name) and gives every tracked agent +2 and the trigger
\* agent +4 more: it leaves the match handling only at its end, with both
\* cells solved, and each step of its scoring loop adds the stated amount.
C6_MatchOutcome ==
    [][ \A t \in Tasks :
          /\ (pc[t] \in MatchPcs /\ pc'[t] \notin MatchPcs)
                => /\ pc[t] = "match_win"
                   /\ \A c \in {loc[t].c1, loc[t].c2} :
                         /\ state'[c] = "solved"
                         /\ tokEnergy'[c] = 0
                         /\ tokName'[c] = SOLVED_NAME
          /\ (pc[t] = "match_score" /\ loc[t].todo # <<>> /\ loc'[t] # loc[t])
                => LET x == Head(loc[t].todo)
                   IN Tracked(x) /\
                      scores'[x] = scores[x] + 2 + (IF x = trigger_agent THEN 4 ELSE 0)
      ]_vars

\* C7: a mismatch resolution, once started, hides both cells again, takes 1
\* from every agent with a positive score and 1 more from the trigger agent,
\* and leaves the others alone: it leaves the mismatch handling only at its
\* end, with both cells hidden, having gone through its scoring loop.
C7_MismatchOutcome ==
    [][ \A t \in Tasks :
          /\ (pc[t] \in MisPcs /\ pc'[t] \notin MisPcs)
                => /\ pc[t] = "mis_check"
                   /\ \A c \in {loc[t].c1, loc[t].c2} :
                         /\ state'[c] = "hidden"
                         /\ tokName'[c] = HIDDEN_NAME
          /\ (pc[t] = "mis_score" /\ loc[t].todo # <<>> /\ loc'[t] # loc[t])
                => LET x == Head(loc[t].todo)
                   IN /\ Tracked(x)
                      /\ scores'[x] = IF scores[x] > 0
                                      THEN scores[x] - 1 - (IF x = trigger_agent THEN 1 ELSE 0)
                                      ELSE scores[x]
      ]_vars

(***************************************************************************)
(* SpecWorld: World.place_in_matrix and World.remove_from_matrix           *)
(* (world.py:169-190) called in any order with any object and any matrix   *)
(* id, that of no matrix included.  Both are synchronous: one call is one  *)
(* step.                                                                   *)
(***************************************************************************)
MatrixArgs == MatrixIds \cup {MissingMatrix}

\* self.matrix_contents.get(old, set()).discard(objid) (world.py:175, 187)
Discard(contents, o, old) ==
    [m \in MatrixIds |-> IF m = old THEN contents[m] \ {o} ELSE contents[m]]

\* obj.container_matrix of an object that has the field, "" otherwise
ContainerOf(o) == IF o \in HasContainer THEN container_matrix[o] ELSE NoMatrix

PlaceKeepsOld(o, m) ==
    [x \in MatrixIds |-> IF x = m THEN matrix_contents[x] \cup {o} ELSE matrix_contents[x]]

\* matrix_contents after place_in_matrix(o, m) (world.py:172-178)
PlaceContents(o, m) ==
    LET removed == IF ContainerOf(o) # NoMatrix
                   THEN Discard(matrix_contents, o, ContainerOf(o))
                   ELSE matrix_contents
    IN [x \in MatrixIds |-> IF x = m THEN removed[x] \cup {o} ELSE removed[x]]

\* the container_matrix fields after place_in_matrix(o, m) (world.py:179-180)
PlaceContainer(o, m) ==
    IF o \in HasContainer THEN [container_matrix EXCEPT ![o] = m] ELSE container_matrix

\* matrix_contents after remove_from_matrix(o) (world.py:184-190)
RemoveContents(o) ==
    IF ContainerOf(o) # NoMatrix
    THEN Discard(matrix_contents, o, ContainerOf(o))
    ELSE matrix_contents

RemoveContainer(o) ==
    IF ContainerOf(o) # NoMatrix
    THEN [container_matrix EXCEPT ![o] = NoMatrix]
    ELSE container_matrix

PlaceInMatrix(o, m) ==
    /\ matrix_contents' = PlaceContents(o, m)
    /\ container_matrix' = PlaceContainer(o, m)
    /\ UNCHANGED <<gameSpecVars, xferVars, connVars, loginVars>>

RemoveFromMatrix(o) ==
    /\ matrix_contents' = RemoveContents(o)
    /\ container_matrix' = RemoveContainer(o)
    /\ UNCHANGED <<gameSpecVars, xferVars, connVars, loginVars>>

InitWorld == GameInit /\ board = Deck /\ WorldEmpty /\ XferIdle /\ AllLoggedIn

NextWorld ==
    \/ \E o \in WorldObjs, m \in MatrixArgs : PlaceInMatrix(o, m)
    \/ \E o \in WorldObjs : RemoveFromMatrix(o)

SpecWorld == InitWorld /\ [][NextWorld]_vars

\* C10: after any sequence of place_in_matrix and remove_from_matrix calls,
\* every Agent, Token and Key is in the reverse index of at most one matrix,
\* and its container_matrix names a matrix M exactly when the reverse index
\* of M contains it.
C10_ContainmentInStep ==
    \A o \in HasContainer :
        /\ Cardinality({m \in MatrixIds : o \in matrix_contents[m]}) <= 1
        /\ \A m \in MatrixIds : container_matrix[o] = m <=> o \in matrix_contents[m]

\* C10 witness: objects placed in either matrix, one in none, and one placed
\* with the id of no matrix.
C10_Witness ==
    /\ container_matrix["a1"] = GameMatrix /\ "a1" \in matrix_contents[GameMatrix]
    /\ container_matrix["t1"] = HomeMatrix /\ "t1" \in matrix_contents[HomeMatrix]
    /\ container_matrix["a2"] = NoMatrix
    /\ container_matrix["k1"] = MissingMatrix

\* A step of SpecWorld that is the call place_in_matrix(o, m)
IsPlaceStep(o, m) ==
    /\ matrix_contents' = PlaceContents(o, m)
    /\ container_matrix' = PlaceContainer(o, m)

\* C11: after a place_in_matrix call on an Agent, Token or Key, whatever the
\* calls before it, the object is in the reverse index of exactly one matrix.
C11_ExactlyOneAfterPlace ==
    [][ \A o \in HasContainer, m \in MatrixArgs :
            IsPlaceStep(o, m)
                => Cardinality({x \in MatrixIds : o \in matrix_contents'[x]}) = 1
      ]_vars

\* C12: place_in_matrix with the id of no matrix is a no-op: the
\* container_matrix fields and every reverse index are left as they were.
C12_MissingMatrixNoOp ==
    [][ \A o \in WorldObjs :
            IsPlaceStep(o, MissingMatrix) => UNCHANGED <<matrix_contents, container_matrix>>
      ]_vars

(***************************************************************************)
(* SpecTransfer: TileNetServer._place_agent_in_matrix (server.py:180-219)  *)
(* with Session.send_matrix_state (session.py:69-105), one task per agent. *)
(* xlog[a] lists what the transfer of agent a has done so far.  Every send *)
(* is an await: the tasks of the agents interleave at every step.  Both    *)
(* matrices have a plugin (main.py:35-52); every agent has a session.      *)
(***************************************************************************)
MaxMoves == 2

\* the game matrix as initialize() leaves it, reduced to one object a kind
WorldSetUp ==
    /\ matrix_contents = [m \in MatrixIds |->
                             IF m = GameMatrix THEN XTokens \cup XKeys \cup XImages ELSE {}]
    /\ container_matrix = [o \in HasContainer |->
                             IF o \in XTokens \cup XKeys THEN GameMatrix ELSE NoMatrix]

\* World.get_agents_in_matrix and its siblings (world.py:129-163)
ObjsIn(kind, m) ==
    IF m \notin MatrixIds THEN {}
    ELSE matrix_contents[m] \cap
         (CASE kind = "image" -> XImages
            [] kind = "token" -> XTokens
            [] kind = "key" -> XKeys
            [] kind = "agent" -> XAgents
            [] OTHER -> {})

SyncTokensFirst == <<"matrix", "token", "image", "key", "agent">>

\* the order of the sends in send_matrix_state (session.py:88-105)
SyncPhases == <<"matrix", "image", "token", "key", "agent">>

PlaceBeforeExit(step) ==
    CASE step = "remove" -> "place"
      [] step = "place" -> "exit"
      [] step = "exit" -> "leave"
      [] step = "leave" -> "state"
      [] step = "state" -> "arrive"
      [] step = "arrive" -> "enter"
      [] OTHER -> "idle"

\* the order of the statements of _place_agent_in_matrix (server.py:188-219)
NextStep(step) ==
    CASE step = "remove" -> "exit"
      [] step = "exit" -> "leave"
      [] step = "leave" -> "place"
      [] step = "place" -> "state"
      [] step = "state" -> "arrive"
      [] step = "arrive" -> "enter"
      [] OTHER -> "idle"

Event(k, o) == [k |-> k, o |-> o]
Log(a, k, o) == xlog' = [xlog EXCEPT ![a] = Append(@, Event(k, o))]
Step(a, to, nloc) ==
    /\ xpc' = [xpc EXCEPT ![a] = to]
    /\ xloc' = [xloc EXCEPT ![a] = [nloc EXCEPT !.fresh = TRUE]]

\* the steps of _place_agent_in_matrix and of _remove_agent
XferPcs == {"remove", "exit", "leave", "place", "state", "arrive", "enter"}
RmPcs == {"rm_start", "rm_leave", "rm_remove", "rm_exit", "rm_pop"}

\* An exception leaves the command or the transfer: handle_client catches it
\* and goes to its cleanup, _remove_agent (server.py:108-115).
Fail(a) ==
    /\ xpc' = [xpc EXCEPT ![a] = "rm_start"]
    /\ xloc' = [xloc EXCEPT ![a] = XLocInit]
    /\ xlog' = [xlog EXCEPT ![a] = <<>>]

\* The occupants a plugin hook sends to: HomePlugin announces to the others
\* (home.py:55-78), the game plugin broadcasts to every agent in its matrix
\* (game.py:611-621).
HookPeers(m, a) ==
    IF m = HomeMatrix THEN ObjsIn("agent", m) \ {a} ELSE ObjsIn("agent", m)

\* The game plugin's broadcasts catch a failed send (game.py:606-609,
\* 617-621); HomePlugin's loops do not (home.py:55-78).
HookCaught(m) == m = GameMatrix

\* server.py:184-190 and 203: the transfer starts; an agent that is in no
\* matrix goes straight to the placement.  The first transfer of a
\* connection is to the home matrix (server.py:87-88).
XferStart(a, m) ==
    /\ xpc[a] = "idle"
    /\ a \notin closed
    /\ moves[a] < MaxMoves
    /\ moves[a] = 0 => m = HomeMatrix
    /\ xlog' = [xlog EXCEPT ![a] = <<>>]
    /\ Step(a, IF container_matrix[a] # NoMatrix THEN "remove" ELSE "place",
            [XLocInit EXCEPT !.target = m, !.old = container_matrix[a]])
    /\ UNCHANGED <<gameSpecVars, loginVars, connVars, worldVars, moves>>

\* server.py:191
XferRemove(a) ==
    /\ xpc[a] = "remove"
    /\ matrix_contents' = RemoveContents(a)
    /\ container_matrix' = RemoveContainer(a)
    /\ Log(a, "remove", xloc[a].old)
    /\ Step(a, NextStep("remove"), xloc[a])
    /\ UNCHANGED <<gameSpecVars, loginVars, connVars, moves>>

\* A loop of sends over a list taken when the loop starts.  An occupant
\* without a session is skipped (server.py:194-195); a send to a closed
\* connection raises, which ends the loop unless the loop catches it.
SendLoop(a, step, kind, objs, caught, next) ==
    /\ xpc[a] = step
    /\ LET todo == IF xloc[a].fresh THEN objs ELSE xloc[a].todo IN
       IF todo = {}
       THEN /\ Step(a, next, xloc[a])
            /\ UNCHANGED xlog
       ELSE \E p \in todo :
            IF p \in sessions /\ p \in closed /\ ~caught
            THEN Fail(a)
            ELSE /\ IF p \in sessions /\ p \notin closed
                    THEN Log(a, kind, p)
                    ELSE UNCHANGED xlog
                 /\ xpc' = xpc
                 /\ xloc' = [xloc EXCEPT ![a].todo = todo \ {p}, ![a].fresh = FALSE]
    /\ UNCHANGED <<gameSpecVars, loginVars, connVars, worldVars, moves>>

\* server.py:193-196
XferExit(a) ==
    SendLoop(a, "exit", "exit", ObjsIn("agent", xloc[a].old), FALSE, NextStep("exit"))

\* A plugin hook: the call, then its sends to the occupants, one a step.
Hook(a, step, kind, hear, m, next) ==
    /\ xpc[a] = step
    /\ IF xloc[a].fresh
       THEN IF step = "enter" /\ m = GameMatrix /\ a \in closed
            THEN \* on_agent_enter's first send, to the entering agent, is not
                 \* caught (game.py:266)
                 Fail(a)
            ELSE /\ Log(a, kind, m)
                 /\ xpc' = xpc
                 /\ xloc' = [xloc EXCEPT ![a].todo = HookPeers(m, a), ![a].fresh = FALSE]
       ELSE IF xloc[a].todo = {}
       THEN /\ Step(a, next, xloc[a])
            /\ UNCHANGED xlog
       ELSE \E p \in xloc[a].todo :
            IF p \in sessions /\ p \in closed /\ ~HookCaught(m)
            THEN IF step = "rm_leave"
                 THEN \* the exception leaves _remove_agent, which runs in
                      \* handle_client's finally clause: the task ends
                      /\ xpc' = [xpc EXCEPT ![a] = "dead"]
                      /\ xloc' = [xloc EXCEPT ![a] = XLocInit]
                      /\ UNCHANGED xlog
                 ELSE Fail(a)
            ELSE /\ IF p \in sessions /\ p \notin closed
                    THEN Log(a, hear, p)
                    ELSE UNCHANGED xlog
                 /\ xpc' = xpc
                 /\ xloc' = [xloc EXCEPT ![a].todo = @ \ {p}]

\* server.py:199-201
XferLeave(a) ==
    /\ Hook(a, "leave", "on_agent_leave", "leave_hear", xloc[a].old, NextStep("leave"))
    /\ UNCHANGED <<gameSpecVars, loginVars, connVars, worldVars, moves>>

\* server.py:204
XferPlace(a) ==
    /\ xpc[a] = "place"
    /\ matrix_contents' = PlaceContents(a, xloc[a].target)
    /\ container_matrix' = PlaceContainer(a, xloc[a].target)
    /\ Log(a, "place", xloc[a].target)
    /\ Step(a, NextStep("place"), [xloc[a] EXCEPT !.phase = 1])
    /\ UNCHANGED <<gameSpecVars, loginVars, connVars, moves>>

\* send_matrix_state (session.py:82-105): one send of the current phase, or
\* the move to the next phase, whose list is taken then.  The sends go to the
\* mover's own connection and raise when it is closed.
XferState(a) ==
    /\ xpc[a] = "state"
    /\ LET ph == xloc[a].phase
           kind == SyncPhases[ph]
           todo == IF ~xloc[a].fresh THEN xloc[a].todo
                   ELSE IF kind = "matrix" THEN {xloc[a].target}
                   ELSE ObjsIn(kind, xloc[a].target)
       IN IF todo # {}
          THEN IF a \in closed
               THEN Fail(a)
               ELSE \E o \in todo :
                    /\ Log(a, kind, o)
                    /\ xpc' = xpc
                    /\ xloc' = [xloc EXCEPT ![a].todo = todo \ {o}, ![a].fresh = FALSE]
          ELSE IF ph < Len(SyncPhases)
          THEN /\ xpc' = xpc
               /\ xloc' = [xloc EXCEPT ![a].phase = ph + 1, ![a].fresh = TRUE]
               /\ UNCHANGED xlog
          ELSE /\ Step(a, NextStep("state"), xloc[a])
               /\ UNCHANGED xlog
    /\ UNCHANGED <<gameSpecVars, loginVars, connVars, worldVars, moves>>

\* server.py:210-214
XferArrive(a) ==
    SendLoop(a, "arrive", "arrive", ObjsIn("agent", xloc[a].target) \ {a}, FALSE,
             NextStep("arrive"))

\* server.py:217-219: the hook, then the return to the command loop
XferEnter(a) ==
    /\ xpc[a] = "enter"
    /\ IF ~xloc[a].fresh /\ xloc[a].todo = {}
       THEN /\ xpc' = [xpc EXCEPT ![a] = NextStep("enter")]
            /\ xloc' = xloc
            /\ moves' = [moves EXCEPT ![a] = @ + 1]
            /\ UNCHANGED xlog
       ELSE /\ Hook(a, "enter", "on_agent_enter", "enter_hear", xloc[a].target, "enter")
            /\ UNCHANGED moves
    /\ UNCHANGED <<gameSpecVars, loginVars, connVars, worldVars>>

\* The transport of a connection closes (the peer drops): from now on every
\* send to it raises ConnectionClosed.
XferDrop(a) ==
    /\ a \in sessions /\ a \notin closed
    /\ xpc[a] \notin {"gone", "dead"}
    /\ moves[a] > 0
    /\ closed' = closed \cup {a}
    /\ UNCHANGED <<gameSpecVars, loginVars, worldVars, xferVars, sessions>>

\* The command loop ends, by a logout message or because the connection is
\* closed (server.py:91-103, 108-115): the cleanup starts.
XferLogout(a) ==
    /\ xpc[a] = "idle" /\ moves[a] > 0
    /\ Fail(a)
    /\ UNCHANGED <<gameSpecVars, loginVars, connVars, worldVars, moves>>

\* _remove_agent, server.py:314-324: the plugin of the agent's matrix
RmStart(a) ==
    /\ xpc[a] = "rm_start"
    /\ Step(a, IF container_matrix[a] = NoMatrix THEN "rm_pop"
               ELSE IF container_matrix[a] \in MatrixIds THEN "rm_leave" ELSE "rm_remove",
            [XLocInit EXCEPT !.old = container_matrix[a]])
    /\ UNCHANGED <<gameSpecVars, loginVars, connVars, worldVars, xlog, moves>>

RmLeave(a) ==
    /\ Hook(a, "rm_leave", "rm_on_agent_leave", "rm_leave_hear", xloc[a].old, "rm_remove")
    /\ UNCHANGED <<gameSpecVars, loginVars, connVars, worldVars, moves>>

\* server.py:327-328
RmRemove(a) ==
    /\ xpc[a] = "rm_remove"
    /\ matrix_contents' = RemoveContents(a)
    /\ container_matrix' = RemoveContainer(a)
    /\ Log(a, "rm_remove", xloc[a].old)
    /\ Step(a, "rm_exit", xloc[a])
    /\ UNCHANGED <<gameSpecVars, loginVars, connVars, moves>>

\* server.py:329-335
RmExit(a) ==
    SendLoop(a, "rm_exit", "rm_exit", ObjsIn("agent", xloc[a].old), TRUE, "rm_pop")

\* server.py:337-345: the farewell, sent if possible, and the session dropped
RmPop(a) ==
    /\ xpc[a] = "rm_pop"
    /\ sessions' = sessions \ {a}
    /\ closed' = closed \cup {a}
    /\ xpc' = [xpc EXCEPT ![a] = "gone"]
    /\ xloc' = [xloc EXCEPT ![a] = XLocInit]
    /\ Log(a, "pop", a)
    /\ UNCHANGED <<gameSpecVars, loginVars, worldVars, moves>>

InitTransfer == GameInit /\ board = Deck /\ WorldSetUp /\ XferIdle /\ AllLoggedIn

NextTransfer ==
    \E a \in XAgents :
        \/ \E m \in MatrixIds : XferStart(a, m)
        \/ XferRemove(a) \/ XferExit(a) \/ XferLeave(a) \/ XferPlace(a)
        \/ XferState(a) \/ XferArrive(a) \/ XferEnter(a)
        \/ XferDrop(a) \/ XferLogout(a)
        \/ RmStart(a) \/ RmLeave(a) \/ RmRemove(a) \/ RmExit(a) \/ RmPop(a)

SpecTransfer == InitTransfer /\ [][NextTransfer]_vars

(***************************************************************************)
(* Properties of the transfer, checked under SpecTransfer.                 *)
(***************************************************************************)
SyncRank(k) ==
    CASE k = "matrix" -> 1
      [] k = "image" -> 2
      [] k = "token" -> 3
      [] k = "key" -> 4
      [] k = "agent" -> 5
      [] OTHER -> 0

StepRank(k) ==
    CASE k = "remove" -> 1
      [] k = "exit" -> 2
      [] k = "on_agent_leave" -> 3
      [] k = "leave_hear" -> 3
      [] k = "place" -> 4
      [] k = "arrive" -> 6
      [] k = "on_agent_enter" -> 7
      [] k = "enter_hear" -> 7
      [] OTHER -> 5

SyncEvents(a) == SelectSeq(xlog[a], LAMBDA e : SyncRank(e.k) > 0)
Logged(a, k) == {xlog[a][i].o : i \in {j \in 1..Len(xlog[a]) : xlog[a][j].k = k}}
SyncDone(a) == xpc[a] \in {"arrive", "enter"} \/ (xpc[a] = "idle" /\ xlog[a] # <<>>)

\* C8: send_matrix_state sends the matrix first and once, then the images,
\* then the tokens, then the keys, then the agents: in what a client was
\* sent no object of a later kind comes before one of an earlier kind; once
\* the state is sent it holds every image, token and key of the matrix and
\* the receiving client's own agent.
C8_SyncOrder ==
    \A a \in XAgents :
        LET s == SyncEvents(a) IN
        /\ \A i, j \in 1..Len(s) : i < j => SyncRank(s[i].k) <= SyncRank(s[j].k)
        /\ Len(s) > 0 => s[1] = Event("matrix", xloc[a].target)
        /\ \A i \in 2..Len(s) : s[i].k # "matrix"
        /\ SyncDone(a) =>
              /\ a \in Logged(a, "agent")
              /\ \A k \in {"image", "token", "key"} :
                    ObjsIn(k, xloc[a].target) \subseteq Logged(a, k)

\* C8 witness: a client has been sent the whole state of the game matrix,
\* with its image, token and key, while the other agent was in it too.
C8_Witness ==
    \E a \in XAgents :
        /\ xpc[a] = "arrive" /\ xloc[a].target = GameMatrix
        /\ Logged(a, "image") # {} /\ Logged(a, "token") # {} /\ Logged(a, "key") # {}
        /\ Logged(a, "agent") = XAgents

\* C9: a transfer does its steps in this order: removal from the old matrix,
\* exit deltas to the occupants left there, the old plugin's on_agent_leave,
\* placement in the new matrix, the full state to the mover, the mover's
\* definition to the other occupants, the new plugin's on_agent_enter.  The
\* mover is in no matrix from the removal to the placement, so every exit
\* delta is sent before the containment changes to the new matrix; a finished
\* transfer has done every step.
C9_TransferOrder ==
    \A a \in XAgents :
        LET l == xlog[a] IN
        /\ \A i, j \in 1..Len(l) : i < j => StepRank(l[i].k) <= StepRank(l[j].k)
        /\ (xpc[a] \in XferPcs /\ Logged(a, "place") = {}) =>
              container_matrix[a] = (IF Logged(a, "remove") # {} THEN NoMatrix
                                     ELSE xloc[a].old)
        /\ Logged(a, "place") # {} =>
              /\ container_matrix[a] = xloc[a].target
              /\ a \in matrix_contents[xloc[a].target]
        /\ a \notin Logged(a, "exit") \cup Logged(a, "arrive")
        /\ (xpc[a] = "idle" /\ l # <<>>) =>
              /\ Logged(a, "place") = {xloc[a].target}
              /\ Logged(a, "matrix") = {xloc[a].target}
              /\ Logged(a, "on_agent_enter") = {xloc[a].target}
              /\ xloc[a].old # NoMatrix =>
                    /\ Logged(a, "remove") = {xloc[a].old}
                    /\ Logged(a, "on_agent_leave") = {xloc[a].old}

\* C9 witness: a finished transfer that left an occupant behind in the old
\* matrix and met an occupant in the new one.
C9_Witness ==
    \E a \in XAgents :
        /\ xpc[a] = "idle"
        /\ Logged(a, "exit") # {} /\ Logged(a, "arrive") # {}
        /\ Logged(a, "on_agent_enter") # {}

\* C13: a delivery that fails at one peer does not reach the initiating
\* command: a transfer whose own connection is open goes on through its steps
\* to its end, whatever the state of the occupants' connections.
C13_PeerFailureContained ==
    [][ \A a \in XAgents :
            (xpc[a] \in XferPcs /\ a \notin closed)
                => xpc'[a] \in XferPcs \cup {"idle"}
      ]_vars

\* C14: the cleanup of a connection, once started, goes through its steps and
\* ends with the agent in no matrix (empty container_matrix, in no reverse
\* index), its session out of the session directory and the Agent still in
\* World, also when sends fail on the way.
C14_CleanupPostState ==
    [][ \A a \in XAgents :
            xpc[a] \in RmPcs
                => \/ xpc'[a] \in RmPcs
                   \/ /\ xpc'[a] = "gone"
                      /\ container_matrix'[a] = NoMatrix
                      /\ \A m \in MatrixIds : a \notin matrix_contents'[m]
                      /\ a \notin sessions'
                      /\ a \in created'
      ]_vars

(***************************************************************************)
(* SpecLogin: the login handshake, TileNetServer._handle_login             *)
(* (server.py:117-178), one task per connection.  A name is a sequence of  *)
(* characters.  The handler is suspended where it waits for the next login *)
(* message and where it sends a reply; the duplicate check, the creation   *)
(* of the agent and the entry in the session directory have no await in    *)
(* between (server.py:153-169).                                            *)
(***************************************************************************)
\* max_attempts (server.py:121)
MAX_ATTEMPTS == 5

\* the names the clients ask for
RawNames == {<<>>, <<" ">>, <<"<">>, <<"b">>, <<" ", "b">>, <<"B">>}

\* str.strip() (server.py:142)
RECURSIVE LStrip(_)
LStrip(n) == IF n # <<>> /\ Head(n) = " " THEN LStrip(Tail(n)) ELSE n
RECURSIVE RStrip(_)
RStrip(n) == IF n # <<>> /\ n[Len(n)] = " " THEN RStrip(SubSeq(n, 1, Len(n) - 1)) ELSE n
Strip(n) == RStrip(LStrip(n))

AcceptsLessThan(user) == user = <<>>

\* not user or "<" in user (server.py:146)
Invalid(user) == user = <<>> \/ \E i \in 1..Len(user) : user[i] = "<"

NameNeverTaken(user) == FALSE

\* the loop over self.sessions.values() (server.py:154-156)
NameTaken(user) == \E j \in sessions : j \in created /\ agentName[j] = user

InitLogin ==
    /\ GameInit /\ board = Deck /\ WorldEmpty /\ XferIdle
    /\ sessions = {}
    /\ closed = {}
    /\ lpc = [k \in XAgents |-> "recv"]
    /\ attempts = [k \in XAgents |-> 0]
    /\ asked = [k \in XAgents |-> <<>>]
    /\ created = {}
    /\ agentName = [k \in XAgents |-> <<>>]

\* server.py:132-169: a login message arrives and is decided
LoginMsg(k, raw) ==
    /\ lpc[k] = "recv" /\ attempts[k] < MAX_ATTEMPTS
    /\ asked' = [asked EXCEPT ![k] = raw]
    /\ LET user == Strip(raw) IN
       IF Invalid(user) \/ NameTaken(user)
       THEN /\ lpc' = [lpc EXCEPT ![k] = "reject"]
            /\ UNCHANGED <<created, agentName, sessions>>
       ELSE /\ created' = created \cup {k}
            /\ agentName' = [agentName EXCEPT ![k] = user]
            /\ sessions' = sessions \cup {k}
            /\ lpc' = [lpc EXCEPT ![k] = "welcome"]
    /\ UNCHANGED <<gameSpecVars, worldVars, xferVars, closed, attempts>>

\* server.py:147-151, 157-161: the reply without objid is sent, the attempt
\* counted, and the loop goes on or ends with the 5th rejection
LoginRejected(k) ==
    /\ lpc[k] = "reject"
    /\ attempts' = [attempts EXCEPT ![k] = @ + 1]
    /\ lpc' = [lpc EXCEPT ![k] = IF attempts[k] + 1 < MAX_ATTEMPTS THEN "recv" ELSE "closed"]
    /\ closed' = IF attempts[k] + 1 < MAX_ATTEMPTS THEN closed ELSE closed \cup {k}
    /\ UNCHANGED <<gameSpecVars, worldVars, xferVars, sessions, asked, created, agentName>>

\* server.py:125-140: the read times out, the connection is closed by the
\* client, or the message is no login; or the reply of a rejection cannot be
\* sent: the handler ends (server.py:83-84, 108-115 with agent_id None)
LoginGivenUp(k) ==
    /\ lpc[k] \in {"recv", "reject"}
    /\ lpc' = [lpc EXCEPT ![k] = "closed"]
    /\ closed' = closed \cup {k}
    /\ UNCHANGED <<gameSpecVars, worldVars, xferVars, sessions, attempts, asked, created,
                   agentName>>

\* server.py:171-175: the welcome with the objid is sent
LoginWelcomed(k) ==
    /\ lpc[k] = "welcome"
    /\ lpc' = [lpc EXCEPT ![k] = "in"]
    /\ UNCHANGED <<gameSpecVars, worldVars, xferVars, connVars, attempts, asked, created,
                   agentName>>

\* server.py:171-172: the welcome cannot be sent; the exception leaves
\* _handle_login before handle_client has the agent id (server.py:82), so
\* the cleanup is skipped (server.py:114) and the session stays
LoginWelcomeFails(k) ==
    /\ lpc[k] = "welcome"
    /\ lpc' = [lpc EXCEPT ![k] = "lost"]
    /\ closed' = closed \cup {k}
    /\ UNCHANGED <<gameSpecVars, worldVars, xferVars, sessions, attempts, asked, created,
                   agentName>>

\* The connection of a logged-in agent ends and _remove_agent runs
\* (server.py:312-345): the session is dropped, unless the cleanup is left
\* by an exception before it (server.py:320-324).
LoginLeave(k) ==
    /\ lpc[k] = "in"
    /\ lpc' = [lpc EXCEPT ![k] = "out"]
    /\ closed' = closed \cup {k}
    /\ sessions' \in {sessions \ {k}, sessions}
    /\ UNCHANGED <<gameSpecVars, worldVars, xferVars, attempts, asked, created, agentName>>

NextLogin ==
    \E k \in XAgents :
        \/ \E raw \in RawNames : LoginMsg(k, raw)
        \/ LoginRejected(k) \/ LoginGivenUp(k)
        \/ LoginWelcomed(k) \/ LoginWelcomeFails(k) \/ LoginLeave(k)

SpecLogin == InitLogin /\ [][NextLogin]_vars

\* C15: a login whose name is empty, contains "<" or is the name of a logged-in
\* agent is answered with the reply without objid and the connection stays
\* open (no agent created, no session added); each rejection is counted and the
\* 5th closes the connection; a connection whose login was never accepted has
\* no Agent in World and no session.
C15_LoginRejection ==
    [][ \A k \in XAgents :
          /\ (lpc[k] = "recv" /\ lpc'[k] \in {"reject", "welcome"})
                => LET raw == asked'[k] IN
                   (\/ raw = <<>>
                    \/ \E i \in 1..Len(raw) : raw[i] = "<"
                    \/ \E j \in sessions : agentName[j] = raw)
                       => /\ lpc'[k] = "reject"
                          /\ UNCHANGED <<created, sessions, closed>>
          /\ (lpc[k] = "reject" /\ lpc'[k] # "reject")
                => \/ lpc'[k] = "closed"
                   \/ /\ lpc'[k] = "recv"
                      /\ attempts'[k] = attempts[k] + 1
                      /\ attempts'[k] < 5
          /\ attempts'[k] = 5 => lpc'[k] = "closed" /\ k \in closed'
          /\ lpc'[k] \in {"recv", "reject", "closed"} => k \notin created' /\ k \notin sessions'
      ]_vars

\* C15 witness: a connection closed by its 5th rejection, the last one for
\* asking the name of the agent that is logged in.
C15_Witness ==
    \E k, j \in XAgents :
        /\ lpc[k] = "closed" /\ attempts[k] = 5 /\ k \notin created
        /\ lpc[j] = "in" /\ agentName[j] = <<"b">> /\ asked[k] = <<" ", "b">>

\* C16: no two sessions of the session directory belong to agents with the
\* same name, whatever the interleaving of logins and disconnects.
C16_UniqueNames ==
    \A j, k \in sessions : j # k => agentName[j] # agentName[k]

\* C16 witness: two agents are logged in, one of them after a rejection for
\* asking the other's name.
C16_Witness ==
    /\ sessions = XAgents
    /\ \A k \in XAgents : lpc[k] = "in"
    /\ \E k \in XAgents : attempts[k] > 0 /\ agentName[k] = <<"B">>
    /\ \E k \in XAgents : agentName[k] = <<"b">>

\* C18: a grid click starts to change the game (the click's task leaves the
\* entry of on_click for the reveal or a forced resolution) only if, at the
\* time of the click, a game is in progress, the clicking agent has a tracked
\* score greater than 0, and the clicked cell is hidden.
C18_GridClickGuard ==
    [][ \A a \in Agents :
            (pc[a] = "idle" /\ pc'[a] \in {"reveal", "resolve"})
                => /\ game_in_progress
                   /\ scores[a] # NoScore /\ scores[a] > 0
                   /\ state[loc'[a].cell] = "hidden"
      ]_vars

\* C18 witness: a click has been accepted on a hidden cell while another
\* cell is showing, so that a click on that cell would have been refused.
C18_Witness ==
    \E a \in Agents :
        /\ pc[a] = "reveal" /\ cur = a
        /\ state[loc[a].cell] = "hidden"
        /\ game_in_progress /\ scores[a] > 0
        /\ \E c \in Cells : state[c] = "showing"

WinPcs == MatchPcs \cup {"go_start", "go_restart"}
AllSolved == \A c \in Cells : state[c] = "solved"

\* C19: when a match resolution has solved every cell, the game ends with a
\* winner: the resolving task goes on through the win check to the end of
\* _game_over, where game_in_progress is false and the restart control is
\* enabled; and a game over with a winner is never started while some cell
\* is not solved.
C19_WinEndsGame ==
    [][ \A t \in Tasks :
          /\ (pc[t] \in WinPcs /\ AllSolved /\ pc'[t] \notin WinPcs)
                => /\ pc[t] = "go_restart" /\ loc[t].win
                   /\ ~game_in_progress'
                   /\ restartEnergy' = 1
          /\ (pc'[t] = "go_start" /\ loc'[t].win) => AllSolved
      ]_vars

\* a task that is past the scoring loop of _handle_mismatch, or in the game
\* over that _handle_mismatch called
InLoss(t) ==
    \/ pc[t] \in {"mis_elim", "mis_check"} /\ Active = {} /\ game_in_progress
    \/ /\ pc[t] \in {"go_start", "go_reveal", "go_restart"}
       /\ ~loc[t].win /\ loc[t].ret \notin {"leave_end", "logout_end"}

\* C20: when a mismatch resolution leaves no tracked agent with a positive
\* score, the game ends without a winner: the resolving task goes on to the
\* end of _game_over, where game_in_progress is false, every cell that is
\* still hidden shows its symbol, and the restart control is enabled.
C20_LossEndsGame ==
    [][ \A t \in Tasks :
            (InLoss(t) /\ ~InLoss(t)')
                => /\ pc[t] = "go_restart"
                   /\ ~game_in_progress'
                   /\ \A c \in Cells : state'[c] = "hidden" => tokName'[c] = board'[c]
                   /\ restartEnergy' = 1
      ]_vars

C23_RestartRejected ==
    [][ \A a \in Agents :
          /\ (pc[a] = "idle" /\ pc'[a] = "restart_hear") => ~game_in_progress
          /\ (pc[a] = "idle" /\ pc'[a] = "restart_notice")
                => game_in_progress /\ UNCHANGED <<gameVars, objVars>>
          /\ (pc[a] = "restart_notice" /\ pc'[a] # "restart_notice")
                => pc'[a] = "idle" /\ UNCHANGED <<gameVars, objVars>>
          /\ (pc[a] = "idle" /\ cur = None /\ restartEnergy > 0 /\ game_in_progress
                /\ pc'[a] # "idle")
                => pc'[a] \notin {"restart_hear", "reset"}
      ]_vars

\* C23 witness: a restart request is being rejected while two cells are
\* showing and their timer is pending.
C23_Witness ==
    \E a \in Agents :
        /\ pc[a] = "restart_notice"
        /\ game_in_progress /\ Len(showing) = 2 /\ timer_task # None

\* C24: a restart request while no game is in progress takes 1 point from
\* the restarting agent and starts a new game: when _reset_game returns, a
\* game is in progress, every cell is hidden with energy 1, the showing list
\* is empty, no timer is pending, the solved count is 0 and the restart
\* control is disabled, and its scoring loop has set the score of every agent
\* that was tracked to the starting value.
C24_RestartOutcome ==
    [][ \A a \in Agents :
          /\ (pc[a] = "idle" /\ pc'[a] = "restart_hear" /\ scores[a] # NoScore)
                => scores'[a] = scores[a] - 1
          /\ (pc[a] = "reset_restart" /\ pc'[a] # "reset_restart")
                => /\ game_in_progress'
                   /\ \A c \in Cells : state'[c] = "hidden" /\ tokEnergy'[c] = 1
                   /\ showing' = <<>>
                   /\ timer_task' = None
                   /\ solved_count' = 0
                   /\ restartEnergy' <= 0
          /\ (pc[a] = "reset_score" /\ loc[a].todo # <<>> /\ loc'[a] # loc[a])
                => scores'[Head(loc[a].todo)] = START_ENERGY
      ]_vars

\* no operation of the game is under way
Quiet == cur = None /\ \A t \in Tasks : pc[t] \in StablePcs

\* C25: every change the plugin makes to a tracked agent's score is sent to
\* every agent in the matrix: when no operation is under way, the energy of
\* each occupant as every occupant received it last is the energy held in
\* World.
C25_DeltasReachOccupants ==
    Quiet => \A p \in inMatrix, x \in inMatrix : seen[p][x] = agentEnergy[x]

\* C26: after every step of the plugin, the World energy of every agent with
\* a tracked score is its tracked score, and an energy that an occupant
\* receives in that step is that score.
C26_EnergyIsScore ==
    [][ \A x \in Agents :
            scores'[x] # NoScore
                => /\ agentEnergy'[x] = scores'[x]
                   /\ \A p \in Agents :
                         (seen'[p][x] # seen[p][x] /\ seen'[p][x] # NoScore /\ pc[x] # "lobby")
                            => seen'[p][x] = scores'[x]
      ]_vars

\* C26 witness: a mismatch has taken the trigger agent's score below zero
\* while another tracked agent's score is different, and each agent's World
\* energy is its score.
C26_Witness ==
    \E a \in Agents, b \in Agents :
        /\ scores[a] # NoScore /\ scores[b] # NoScore
        /\ scores[a] < 0 /\ scores[b] # scores[a]
        /\ agentEnergy[a] = scores[a] /\ agentEnergy[b] = scores[b]
        /\ seen[b][a] = scores[a]

(***************************************************************************)
(* SpecClick: the dispatch of a click command, TileNetServer._handle_cmd   *)
(* and _handle_click (server.py:221-267), over a World whose containment   *)
(* and energies change in any way.  t1 is the restart control of the game  *)
(* matrix; its energy is restartEnergy.  xlog[a] holds the click of agent  *)
(* a that was forwarded to a plugin last.                                  *)
(***************************************************************************)
\* an id of the token type that no object has
MissingToken == "t9"
ClickTargets == WorldObjs \cup {MissingToken, ""}

\* obj_type (protocol.py:59-61): the first character of the id
ObjType(o) ==
    CASE o \in XTokens \cup {MissingToken} -> "t"
      [] o \in XAgents -> "a"
      [] o \in XKeys -> "k"
      [] o \in XImages -> "i"
      [] o \in MatrixIds -> "m"
      [] OTHER -> ""

\* the game agent whose energy an agent of the World has
AgentNo(a) == IF a = "a1" THEN 1 ELSE 2

\* token.energy (server.py:259)
TokenEnergy(t) == restartEnergy

ForwardsDisabledToken(a, t) ==
    /\ container_matrix[a] # NoMatrix
    /\ ObjType(t) = "t"
    /\ t \in XTokens /\ container_matrix[t] = container_matrix[a]
    /\ container_matrix[a] \in MatrixIds

\* the checks of _handle_cmd (server.py:227-233) and _handle_click
\* (server.py:249-266) that a click passes before plugin.on_click is called
ClickForwarded(a, t) ==
    /\ container_matrix[a] # NoMatrix
    /\ t # "" /\ ObjType(t) = "t"
    /\ t \in XTokens /\ container_matrix[t] = container_matrix[a]
    /\ TokenEnergy(t) > 0
    /\ container_matrix[a] \in MatrixIds

Click(a, t) ==
    /\ IF ClickForwarded(a, t)
       THEN xlog' = [xlog EXCEPT ![a] = <<Event("on_click", t)>>]
       ELSE UNCHANGED xlog
    /\ UNCHANGED <<gameSpecVars, worldVars, connVars, loginVars, xpc, xloc, moves>>

\* the plugins change the energy of a token (game.py:242-247, 518-523) and of
\* an agent (game.py:469-473)
SetTokenEnergy(e) ==
    /\ restartEnergy' = e
    /\ UNCHANGED <<gameVars, tokName, tokEnergy, agentEnergy, inMatrix, taskVars, pairRes,
                   boundVars, otherVars>>

SetAgentEnergy(a, e) ==
    /\ agentEnergy' = [agentEnergy EXCEPT ![AgentNo(a)] = e]
    /\ UNCHANGED <<gameVars, tokName, tokEnergy, restartEnergy, inMatrix, taskVars, pairRes,
                   boundVars, otherVars>>

InitClick == GameInit /\ board = Deck /\ WorldSetUp /\ XferIdle /\ AllLoggedIn

NextClick ==
    \/ \E o \in XAgents \cup XTokens, m \in MatrixArgs : PlaceInMatrix(o, m)
    \/ \E o \in XAgents \cup XTokens : RemoveFromMatrix(o)
    \/ \E e \in {-1, 0, 1} : SetTokenEnergy(e)
    \/ \E a \in XAgents, e \in {0, LOGIN_ENERGY} : SetAgentEnergy(a, e)
    \/ \E a \in XAgents, t \in ClickTargets : Click(a, t)

SpecClick == InitClick /\ [][NextClick]_vars

MissingAgent == "a9"
SayTargets == XAgents \cup {MissingAgent}
SayTexts == {<<>>, <<" ">>, <<"x">>, <<"(", "x", ")">>, <<" ", "(", ")">>, <<"(", "x">>}

\* text.startswith("(") and text.endswith(")") (server.py:279)
IsWhisper(text) == text # <<>> /\ Head(text) = "(" /\ text[Len(text)] = ")"

\* server.py:281-293: the target alone for a whisper, otherwise the agents
\* in the target's matrix (the sender's, if the target is no agent)
SayRecipients(a) ==
    IF IsWhisper(xloc[a].text) THEN {xloc[a].target}
    ELSE ObjsIn("agent", IF xloc[a].target \in XAgents
                         THEN container_matrix[xloc[a].target]
                         ELSE container_matrix[a])

\* _handle_cmd (server.py:227-233) and server.py:273-275: the command of an
\* agent that is in a matrix; the text is stripped, an empty text ends it
SayStart(a, target, text) ==
    /\ xpc[a] = "idle" /\ a \in sessions /\ a \notin closed
    /\ container_matrix[a] # NoMatrix
    /\ xlog' = [xlog EXCEPT ![a] = <<>>]
    /\ xpc' = [xpc EXCEPT ![a] = IF Strip(text) = <<>> THEN "idle" ELSE "say"]
    /\ xloc' = [xloc EXCEPT ![a] = [XLocInit EXCEPT !.target = target, !.text = Strip(text),
                                                    !.fresh = TRUE]]
    /\ UNCHANGED <<gameSpecVars, loginVars, connVars, worldVars, moves>>

\* server.py:281-293: one send of the loop
SaySend(a) ==
    SendLoop(a, "say", "hear", SayRecipients(a), FALSE, "idle")

\* every agent is in the home matrix after its login (server.py:87-88)
InitSay ==
    /\ GameInit /\ board = Deck /\ AllLoggedIn
    /\ matrix_contents = [m \in MatrixIds |->
                             IF m = GameMatrix THEN XTokens \cup XKeys \cup XImages
                             ELSE XAgents]
    /\ container_matrix = [o \in HasContainer |->
                             IF o \in XTokens \cup XKeys THEN GameMatrix ELSE HomeMatrix]
    /\ xpc = [a \in XAgents |-> "idle"]
    /\ xloc = [a \in XAgents |-> XLocInit]
    /\ xlog = [a \in XAgents |-> <<>>]
    /\ moves = [a \in XAgents |-> 1]

NextSay ==
    \E a \in XAgents :
        \/ \E target \in SayTargets, text \in SayTexts : SayStart(a, target, text)
        \/ SaySend(a)
        \/ \E m \in MatrixIds : PlaceInMatrix(a, m)
        \/ RemoveFromMatrix(a)
        \/ XferDrop(a)

SpecSay == InitSay /\ [][NextSay]_vars

\* C27: a say command with an agent as its target and a text that is not
\* empty after trimming delivers a text in parentheses to the target's
\* session alone, and any other text to the session of every agent that is
\* in the target's matrix and to no other; the command of a sender whose
\* connection is open ends when all of them have got it; an empty or blank
\* text delivers nothing.
C27_SayRouting ==
    [][ \A a \in XAgents :
          /\ (xpc[a] = "idle" /\ xpc'[a] = "say")
                => \E j \in 1..Len(xloc'[a].text) : xloc'[a].text[j] # " "
          /\ (xpc[a] = "say" /\ xloc[a].target \in XAgents)
                => LET t == xloc[a].target
                       txt == xloc[a].text
                       whisper == Head(txt) = "(" /\ txt[Len(txt)] = ")"
                       got == {p \in XAgents :
                                 xlog'[a] = Append(xlog[a], Event("hear", p))}
                   IN /\ xlog'[a] # xlog[a] => got # {}
                      /\ \A p \in got :
                            /\ p \in sessions
                            /\ whisper => p = t
                            /\ (~whisper /\ xloc[a].fresh)
                                  => /\ container_matrix[t] \in MatrixIds
                                     /\ p \in matrix_contents[container_matrix[t]]
                            /\ (~whisper /\ ~xloc[a].fresh) => p \in xloc[a].todo
                      /\ (~whisper /\ xloc[a].fresh /\ container_matrix[t] \in MatrixIds
                            /\ xpc'[a] = "say" /\ xloc'[a] # xloc[a])
                            => xloc'[a].todo \cup got
                                 = matrix_contents[container_matrix[t]] \cap XAgents
                      /\ (xpc'[a] # "say" /\ a \notin closed)
                            => xpc'[a] = "idle" /\ xlog'[a] = xlog[a]
      ]_vars

(***************************************************************************)
(* The client's object cache (object_cache.py).  A set message names an    *)
(* object and carries an x or none; x is a sequence of length 0 or 1.      *)
(***************************************************************************)
CacheXs == {<<>>, <<-1>>, <<0>>}
_CONTAINED_TYPES == {"a", "t", "k"}

\* process_set (object_cache.py:35-75)
process_set(objid, x) ==
    LET contained == ObjType(objid) \in _CONTAINED_TYPES
        cm == IF ObjType(objid) = "m" THEN objid ELSE current_matrix_id
        container == IF contained /\ x # <<>> /\ x[1] < 0 THEN NoMatrix
                     ELSE IF contained THEN cm
                     ELSE objects[objid].container
    IN /\ current_matrix_id' = cm
       /\ objects' = [objects EXCEPT ![objid] =
                         [known |-> TRUE, container |-> container,
                          x |-> IF x # <<>> THEN x ELSE objects[objid].x]]
       /\ exited' = IF ~contained \/ x = <<>> THEN exited
                     ELSE IF x[1] < 0 THEN exited \cup {objid}
                     ELSE exited \ {objid}
       /\ UNCHANGED <<gameVars, objVars, taskVars, pairRes, boundVars, seen>>
       /\ UNCHANGED <<worldVars, xferVars, connVars, loginVars>>

\* o.get("x", 0) >= 0 (object_cache.py:93, 106)
ListedWhateverX(o) == TRUE
NotExited(o) == objects[o].x = <<>> \/ objects[o].x[1] >= 0

\* get_matrix_tokens and get_matrix_agents (object_cache.py:85-107): the
\* object is in one of the two lists
Listed(o) ==
    /\ current_matrix_id # NoMatrix
    /\ objects[o].known
    /\ ObjType(o) \in {"t", "a"}
    /\ objects[o].container = current_matrix_id
    /\ NotExited(o)

InitCache == GameInit /\ board = Deck /\ WorldSetUp /\ XferIdle /\ AllLoggedIn

NextCache ==
    \E objid \in CacheIds, x \in CacheXs : process_set(objid, x)

SpecCache == InitCache /\ [][NextCache]_vars

\* C28: an agent, token or key for which the last set message that carried
\* an x carried a negative one is in neither the token list nor the agent
\* list of the current matrix, whatever set messages without an x or with a
\* negative x, for it or for another object, came after.
C28_ExitedStaysUnlisted ==
    \A o \in exited : ~Listed(o)

\* a token that left is told about again without an x: the cache puts it
\* back into the current matrix, and the lists still leave it out
C28_Witness ==
    \E o \in exited :
        /\ ObjType(o) = "t"
        /\ current_matrix_id # NoMatrix
        /\ objects[o].container = current_matrix_id
        /\ ~Listed(o)

(***************************************************************************)
(* The command loop of a connection (server.py:91-106).  A frame is text   *)
(* that is not JSON, a JSON value that is not an object (a list, a number, *)
(* a string, null), or an object with a type; a cmd has a cmd_type and an  *)
(* objid, "" when the field is missing.                                    *)
(***************************************************************************)
InvalidId == "zz"
FrameIds == {"", InvalidId} \cup XTokens
Frames ==
    {[form |-> f, type |-> "", cmd_type |-> "", objid |-> ""] : f \in {"garbage", "value"}}
    \cup {[form |-> "record", type |-> t, cmd_type |-> "", objid |-> ""] :
             t \in {"bogus", "logout"}}
    \cup {[form |-> "record", type |-> "cmd", cmd_type |-> c, objid |-> o] :
             c \in {"click", "say", "press", "bogus"}, o \in FrameIds}

\* the frames that are not a well-formed command or logout
Malformed ==
    {f \in Frames : \/ f.form # "record"
                     \/ f.type = "bogus"
                     \/ (f.type = "cmd" /\ (f.cmd_type = "bogus" \/ f.objid \notin XTokens))}

\* msg.get("type") (server.py:98) on the value deserialize returned
\* (protocol.py:145-146): a value that is not an object has no get
EveryValueHasType(f) == FALSE
GetTypeRaises(f) == f.form = "value"

\* _handle_cmd (server.py:221-243) with _handle_click, _handle_say for a
\* target that is not an agent and a text that is not blank, and
\* _handle_press; neither plugin overrides on_say or on_press
\* (game_plugin.py:47-57)
HandleCmd(a, f) ==
    IF container_matrix[a] = NoMatrix
    THEN UNCHANGED <<xlog, xpc, xloc>>
    ELSE /\ UNCHANGED <<xpc, xloc>>
         /\ xlog' = [xlog EXCEPT ![a] =
               CASE f.cmd_type = "click" ->
                        IF ClickForwarded(a, f.objid) THEN <<Event("on_click", f.objid)>>
                        ELSE IF f.objid = "" \/ ObjType(f.objid) # "t"
                        THEN <<Event("warning", "click")>>
                        ELSE @
                 [] f.cmd_type = "say" ->
                        IF container_matrix[a] \in MatrixIds
                        THEN <<Event("on_say", f.objid)>> ELSE @
                 [] f.cmd_type = "press" ->
                        IF agentEnergy[AgentNo(a)] > 0 /\ container_matrix[a] \in MatrixIds
                        THEN <<Event("on_press", f.objid)>> ELSE @
                 [] OTHER -> <<Event("warning", "cmd_type")>>]

\* one turn of the command loop (server.py:91-115)
ReadFrame(a, f) ==
    /\ xpc[a] = "idle" /\ moves[a] > 0
    /\ a \notin closed
    /\ IF f.form = "garbage"
       THEN /\ xlog' = [xlog EXCEPT ![a] = <<Event("warning", "json")>>]
            /\ UNCHANGED <<xpc, xloc>>
       ELSE IF GetTypeRaises(f) \/ f.type = "logout"
       THEN Fail(a)
       ELSE IF f.type = "cmd"
       THEN HandleCmd(a, f)
       ELSE /\ xlog' = [xlog EXCEPT ![a] = <<Event("warning", "type")>>]
            /\ UNCHANGED <<xpc, xloc>>
    /\ UNCHANGED <<gameSpecVars, worldVars, connVars, loginVars, moves>>

InitFrames ==
    /\ GameInit /\ board = Deck /\ AllLoggedIn
    /\ matrix_contents = [m \in MatrixIds |->
                             IF m = GameMatrix THEN XTokens \cup XKeys \cup XImages
                             ELSE XAgents]
    /\ container_matrix = [o \in HasContainer |->
                             IF o \in XTokens \cup XKeys THEN GameMatrix ELSE HomeMatrix]
    /\ xpc = [a \in XAgents |-> "idle"]
    /\ xloc = [a \in XAgents |-> XLocInit]
    /\ xlog = [a \in XAgents |-> <<>>]
    /\ moves = [a \in XAgents |-> 1]

NextFrames ==
    \E a \in XAgents :
        \/ \E f \in Frames : ReadFrame(a, f)
        \/ \E m \in MatrixIds : XferStart(a, m)
        \/ XferRemove(a) \/ XferExit(a) \/ XferLeave(a) \/ XferPlace(a)
        \/ XferState(a) \/ XferArrive(a) \/ XferEnter(a)
        \/ XferDrop(a)
        \/ RmStart(a) \/ RmLeave(a) \/ RmRemove(a) \/ RmExit(a) \/ RmPop(a)

SpecFrames == InitFrames /\ [][NextFrames]_vars

\* C29: a malformed frame read by the command loop (text that is not JSON,
\* a value that is not a message record, an unknown message type, an
\* unknown command type, a cmd whose objid is missing or not an object id)
\* leaves the handler in the command loop with its session, its open
\* connection and its place in the matrix, and changes no World or plugin
\* state.
C29_MalformedDropped ==
    [][ \A a \in XAgents, f \in Malformed :
          ReadFrame(a, f) =>
              /\ xpc'[a] = "idle"
              /\ a \in sessions' /\ a \notin closed'
              /\ UNCHANGED <<worldVars, gameVars, objVars>>
      ]_vars

\* C30: while the on_agent_leave hook of a disconnect or logout runs, the
\* departing agent is no longer among the contents of the matrix it leaves,
\* and none of the hook's messages is sent to it.
C30_RemovedBeforeLeaveHook ==
    \A a \in XAgents :
        xpc[a] = "rm_leave" =>
            /\ a \notin matrix_contents[xloc[a].old]
            /\ container_matrix[a] = NoMatrix
            /\ \A j \in 1..Len(xlog[a]) : xlog[a][j] # Event("rm_leave_hear", a)

(***************************************************************************)
(* Properties of the matching game under interleaved clicks, checked under *)
(* Spec.                                                                   *)
(***************************************************************************)
\* the timer tasks that were started and have neither ended nor been
\* cancelled
Outstanding == {u \in Timers : pc[u] # "free" /\ ~cancel[u - NumAgents]}

\* C31: at any time at most one resolution-timer task of the game matrix is
\* outstanding (started, not finished, not cancelled).
C31_OneOutstandingTimer ==
    Cardinality(Outstanding) <= 1

\* C33: the end of a reveal click starts a timer exactly when the cell the
\* click revealed is the second cell of the pair showing; the timer is then
\* the only one of the pair (none is pending) and the trigger agent recorded
\* is the clicking agent.
C33_TimerAtSecondReveal ==
    [][ \A a \in Agents :
          (pc[a] = "click_timer" /\ pc'[a] = "idle") =>
              LET started == \E u \in Timers : pc[u] = "free" /\ pc'[u] = "sleeping"
                  second == Len(showing) = 2 /\ showing[2] = loc[a].cell
              IN /\ started <=> second
                 /\ started => trigger_agent' = a /\ ~TimerPending
      ]_vars

\* Agents that enter the game matrix and click grid cells, nothing else:
\* MaxRaceClicks clicks are let in, so that a click of the other agent can
\* arrive while the resolution forced by a third click is suspended.
NextRace ==
    \/ \E a \in Agents :
        \/ EnterPlace(a) \/ EnterHook(a) \/ EnterRestart(a)
        \/ \E c \in Cells : ClickWithin(a, c, MaxRaceClicks)
        \/ Reveal(a) \/ ClickTimer(a)
    \/ \E u \in Timers : TimerExpire(u) \/ TimerWake(u)
    \/ \E t \in Tasks :
        \/ Resolve(t) \/ ResolveNone(t) \/ ResRet(t)
        \/ MatchCell(t) \/ MatchKeys(t) \/ MatchScore(t) \/ MatchHear(t) \/ MatchWin(t)
        \/ MisCell(t) \/ MisKeys(t) \/ MisScore(t) \/ MisPost(t) \/ MisElim(t) \/ MisCheck(t)
        \/ GoStart(t) \/ GoReveal(t) \/ GoRestart(t)

SpecRace == Init /\ [][NextRace]_vars

\* C32: the showing list never holds more than two cells and never holds
\* the same cell twice.
C32_ShowingAtMostTwoDistinct ==
    /\ Len(showing) <= 2
    /\ \A i, j \in 1..Len(showing) : i # j => showing[i] # showing[j]

\* C34: in every state where no task is inside a handler or a resolution, a
\* cell has the state "showing" exactly when it is in the showing list.
C34_ShowingStateIsList ==
    Quiet => \A c \in Cells : state[c] = "showing" <=> SeqHas(showing, c)

\* an agent's task is inside its entry into the game matrix or inside its
\* leave from it (the game-over a leave starts included)
Moving(a) ==
    \/ pc[a] \in {"enter", "enter_restart", "leave_hook", "leave_check", "cleanup",
                  "leave_end", "logout_end"}
    \/ loc[a].ret \in {"leave_end", "logout_end"}

\* C35: whenever no agent is inside an entry or a leave, the agents with a
\* tracked score are the agents contained in the game matrix.
C35_TrackedAreOccupants ==
    (\A a \in Agents : ~Moving(a)) => {a \in Agents : Tracked(a)} = inMatrix

\* C36: while no game is in progress no timer is pending (asleep or waiting
\* to be woken), and no step of a timer task changes a cell state, the
\* solved count or a score.
C36_NoResolutionAfterEnd ==
    [][ /\ ~game_in_progress' => \A u \in Timers : pc'[u] \notin {"sleeping", "expired"}
        /\ \A u \in Timers :
              (~game_in_progress /\ pc[u] \in BodyPcs \cup {"resolve"}
                 /\ (pc'[u] # pc[u] \/ loc'[u] # loc[u]))
                  => UNCHANGED <<state, solved_count, scores>>
      ]_vars

\* C37: in every state where no task is inside a plugin operation, the
\* state after the plugin's initialization included, a game is in progress
\* exactly when the restart token's energy is not positive.
C37_RestartEnabledIffNoGame ==
    Quiet => (game_in_progress <=> restartEnergy <= 0)

(***************************************************************************)
(* Fair scheduling.  The event loop runs every task that is ready: a timer *)
(* whose sleep has ended, a handler that was suspended at a send.  The     *)
(* arrival of a command (a click, an entry, a leave, a logout) is an input *)
(* and has no fairness.                                                    *)
(***************************************************************************)
TaskStep(t) ==
    \/ t \in Timers /\ (TimerExpire(t) \/ TimerWake(t))
    \/ t \in Agents /\
          (\/ EnterHook(t) \/ EnterRestart(t) \/ Reveal(t) \/ ClickTimer(t)
           \/ Cleanup(t) \/ LeaveHook(t) \/ LeaveCheck(t) \/ LeaveEnd(t) \/ LogoutEnd(t)
           \/ RestartNotice(t) \/ RestartHear(t)
           \/ Reset(t) \/ ResetCell(t) \/ ResetScore(t) \/ ResetRestart(t))
    \/ Resolve(t) \/ ResolveNone(t) \/ ResRet(t)
    \/ MatchCell(t) \/ MatchKeys(t) \/ MatchScore(t) \/ MatchHear(t) \/ MatchWin(t)
    \/ MisCell(t) \/ MisKeys(t) \/ MisScore(t) \/ MisPost(t) \/ MisElim(t) \/ MisCheck(t)
    \/ GoStart(t) \/ GoReveal(t) \/ GoRestart(t)

SpecFair == Init /\ [][Next]_vars /\ \A t \in Tasks : WF_vars(TaskStep(t))

\* an agent's connection task is inside the handling of a command
Busy(a) == pc[a] \notin StablePcs

\* C38: whenever two cells are showing and no command is being processed,
\* either a further command (a click among them) arrives or a state is
\* reached in which the showing list is empty and both cells are solved or
\* hidden.
C38_PairEventuallyResolved ==
    \A c1, c2 \in Cells :
        (showing = <<c1, c2>> /\ \A a \in Agents : ~Busy(a))
            ~> \/ /\ showing = <<>>
                  /\ state[c1] \in {"solved", "hidden"}
                  /\ state[c2] \in {"solved", "hidden"}
               \/ \E a \in Agents : Busy(a)

(***************************************************************************)
(* The accept of a connection (server.py:71-79) before its login: the      *)
(* capacity test, the hello, and the end of a connection told "busy".      *)
(***************************************************************************)
\* len(self.sessions) < self.max_clients (server.py:73)
HasRoom == Cardinality(sessions) < max_clients

\* server.py:73-74: the status is decided when the handler starts
Accept(k) ==
    /\ lpc[k] = "new"
    /\ lpc' = [lpc EXCEPT ![k] = IF HasRoom THEN "hello_open" ELSE "hello_busy"]
    /\ UNCHANGED <<gameSpecVars, worldVars, xferVars, connVars, attempts, asked, created,
                   agentName>>

\* server.py:75-82: the hello is sent; a busy connection ends, an open one
\* goes on to the login loop
Hello(k) ==
    /\ lpc[k] \in {"hello_open", "hello_busy"}
    /\ lpc' = [lpc EXCEPT ![k] = IF lpc[k] = "hello_open" THEN "recv" ELSE "closed"]
    /\ closed' = IF lpc[k] = "hello_open" THEN closed ELSE closed \cup {k}
    /\ UNCHANGED <<gameSpecVars, worldVars, xferVars, sessions, attempts, asked, created,
                   agentName>>

InitAccept ==
    /\ GameInit /\ board = Deck /\ WorldEmpty /\ XferIdle
    /\ sessions = {}
    /\ closed = {}
    /\ lpc = [k \in XAgents |-> "new"]
    /\ attempts = [k \in XAgents |-> 0]
    /\ asked = [k \in XAgents |-> <<>>]
    /\ created = {}
    /\ agentName = [k \in XAgents |-> <<>>]

NextAccept ==
    \E k \in XAgents :
        \/ Accept(k) \/ Hello(k)
        \/ \E raw \in RawNames : LoginMsg(k, raw)
        \/ LoginRejected(k) \/ LoginGivenUp(k)
        \/ LoginWelcomed(k) \/ LoginWelcomeFails(k) \/ LoginLeave(k)

SpecAccept == InitAccept /\ [][NextAccept]_vars

\* C39: the session directory never holds more than max_clients sessions.
C39_SessionsWithinCapacity ==
    Cardinality(sessions) <= max_clients

\* C40: solved_count is the number of cells whose state is "solved" and is at
\* most TOTAL_SQUARES; the two cells of a pair handled as a match are
\* distinct.
C40_SolvedCountIsSolvedCells ==
    /\ solved_count = Cardinality({c \in Cells : state[c] = "solved"})
    /\ solved_count <= TOTAL_SQUARES
    /\ \A t \in Tasks : pc[t] \in MatchPcs => loc[t].c1 # loc[t].c2

====
